---- MODULE Spec2Model ----
(***************************************************************************)
(* Model of the LLM-powered PR review pipeline of mcp-pr-reviewer:         *)
(*   - the analyzer scripts (.github/scripts/analyze-pr.js, its later      *)
(*     HTTP version and its stdio version lib/analyze-pr.js), with the LLM *)
(*     provider handler they call                                          *)
(*   - the workflow job "llm-pr-review": the bash step that runs the       *)
(*     analyzer and extracts the decision, and the github-script step that *)
(*     comments, approves, merges or labels                                *)
(*   - the programs around the pipeline: the API of index.js, the LLM      *)
(*     provider as a server of its own, executeMCPCommandStdio as a        *)
(*     function of its own and the analyze command of bin/cli.js.          *)
(* Text is a sequence of elements.  An element is one character, or one   *)
(* whole string literal of the source (a progress line such as "MCP GitHub *)
(* server is available"): such a literal holds no newline, no backslash,   *)
(* no backquote and no part of "APPROVE", so head -n 1, the glob match     *)
(* *"APPROVE"* and echo -e treat it like any other plain character.        *)
(***************************************************************************)
EXTENDS Naturals, Integers, Sequences, FiniteSets, TLC

VARIABLES
  variant,          \* which version of .github/scripts/analyze-pr.js runs
  argv,             \* process.argv.slice(2): [owner, repo, num]
  apc,              \* position of the analyzer's main()
  out,              \* the analyzer's standard output (characters)
  exitCode,         \* the analyzer's exit status (NoCode while it runs)
  failure,          \* kind of the error main() caught ("none" if none)
  prDiff,           \* the diff value main() holds
  probeAnswer,      \* how the availability probe came back (history)
  diffAnswer,       \* what the diff provider answered (history)
  completion,       \* what the model backend answered (history)
  verdict,          \* the verdict text the backend returned (history)
  probes,           \* availability probes sent
  diffRequests,     \* diff requests sent to the provider
  llmRequests,      \* HTTP requests sent to the LLM provider
  backendRequests,  \* chat-completion requests sent to the model backend
  child,            \* the MCP subprocess of executeMCPCommandStdio
  promise,          \* state of the promise of executeMCPCommandStdio
  responseData,     \* tokens accumulated from the subprocess's stdout
  errorData,        \* TRUE when stderr text has been accumulated
  responseComplete, \* flag of executeMCPCommandStdio
  timer,            \* the 60 s timer of executeMCPCommandStdio
  wpc,              \* position of the workflow job
  pr_decision,      \* step output pr_decision
  pr_comment,       \* step output pr_comment
  calls,            \* PR-surface calls of the run, in issue order
  jobStatus,        \* conclusion of the job
  finished,         \* conclusions of the earlier runs for the same PR
  comments,         \* bodies of the comments on the PR, oldest first
  envLlmPort,       \* process.env.LLM_PROVIDER_PORT of a process that uses index.js
  analyses,         \* the analyses that process runs through index.js
  mcpServer,        \* a call of startMCPGitHubServerProcess by that process
  request,          \* a request the LLM provider has received
  reply,            \* what its handler has done for the request
  stdioCall,        \* a call of executeMCPCommandStdio by another caller than main()
  cli               \* the analyze command of bin/cli.js

\* The variables of a run of the pipeline.
pipelineVars ==
  <<variant, argv, apc, out, exitCode, failure, prDiff, probeAnswer,
    diffAnswer, completion, verdict, probes, diffRequests, llmRequests,
    backendRequests, child, promise, responseData, errorData,
    responseComplete, timer, wpc, pr_decision, pr_comment,
    calls, jobStatus, finished, comments>>

\* The variables of the programs around the pipeline: the API of index.js.
apiVars == <<envLlmPort, analyses, mcpServer>>

\* The LLM provider as a server of its own.
providerVars == <<request, reply>>

\* executeMCPCommandStdio as a function of its own.
callVars == <<stdioCall>>

\* The command line program.
cliVars == <<cli>>

hostVars == <<apiVars, providerVars, callVars, cliVars>>

\* What the actions of one of these programs leave alone.
exceptApi == <<providerVars, callVars, cliVars>>
exceptProvider == <<apiVars, callVars, cliVars>>
exceptCall == <<apiVars, providerVars, cliVars>>
exceptCli == <<apiVars, providerVars, callVars>>

vars == <<pipelineVars, hostVars>>

analyzerVars == <<variant, argv, apc, out, exitCode, failure, prDiff,
                  probeAnswer, diffAnswer, completion, verdict, probes, diffRequests,
                  llmRequests, backendRequests>>

stdioVars == <<child, promise, responseData, errorData, responseComplete,
               timer>>

surfaceVars == <<finished, comments>>

workflowVars == <<wpc, pr_decision, pr_comment, calls, jobStatus>>

----------------------------------------------------------------------------
(* Bounds of the model. *)

\* A verdict text is a concatenation of at most MaxPieces pieces.
MaxPieces == 2

\* The subprocess writes at most MaxResponse tokens to its standard output.
MaxResponse == 3

\* The workflow runs at most MaxRuns times for the same pull request.
MaxRuns == 2

\* The CLI prints at most MaxProviderLog chunks of the provider's output.
MaxProviderLog == 2

\* The whole output of the subprocess, when its split into chunks is looked
\* at, has at most MaxOutput tokens.
MaxOutput == 5

----------------------------------------------------------------------------
(* Characters and text. *)

NL == "\n"
BSlash == "\\"

Approve == <<"A", "P", "P", "R", "O", "V", "E">>

Pieces ==
  { Approve,
    <<"a", "p", "p", "r", "o", "v", "e">>,
    <<"R", "E", "J", "E", "C", "T">>,
    <<"A", "P", "P", "R", "O", "V">>,
    <<"E", "D", "!">>,
    <<NL>>,
    <<BSlash, "n">> }

RECURSIVE TextsUpTo(_)
TextsUpTo(n) ==
  IF n = 0 THEN { <<>> }
  ELSE LET prev == TextsUpTo(n - 1)
       IN  prev \cup { t \o p : t \in prev, p \in Pieces }

Texts == TextsUpTo(MaxPieces)

RECURSIVE NatToChars(_)
NatToChars(n) ==
  LET digit == <<"0", "1", "2", "3", "4", "5", "6", "7", "8", "9">>
  IN  IF n < 10 THEN <<digit[n + 1]>>
      ELSE NatToChars(n \div 10) \o <<digit[(n % 10) + 1]>>

----------------------------------------------------------------------------
(* Texts the programs write.                                               *)

MsgServerAvailable ==
  <<"MCP GitHub server is available">>

MsgFetchingPre ==
  <<"Fetching PR diff for ">>

MsgFetchingScriptPost ==
  <<" from GitHub MCP server">>

MsgFetchedPre ==
  <<"Successfully fetched PR diff (">>

MsgFetchedScriptPost ==
  <<" characters)">>

MsgAnalysisResult ==
  <<"Analysis Result:">>

MsgRule ==
  <<"----------------">>

MsgFetchingLibPost ==
  <<" via MCP STDIO...">>

MsgSpawning ==
  <<"Spawning temporary GitHub MCP server via npx for command: get_pull_request_diff">>

MsgParsed ==
  <<"Parsed complete JSON response from MCP server via stdio.">>

MsgFetchedLibPost ==
  <<" characters) via MCP STDIO.">>

MsgAnalyzing ==
  <<"Analyzing PR diff with LLM...">>

MsgConnecting ==
  <<"Connecting to running LLM provider at http://localhost:8090 to analyze diff">>

MsgReceived ==
  <<"Successfully received analysis from LLM provider.">>

MsgFetchingHttpPost ==
  <<" via MCP HTTP client...">>

MsgConnectingMcpPre ==
  <<"Connecting to running MCP GitHub server at http://localhost:8080 to fetch diff for ">>

MsgMcpAvailable ==
  <<"MCP server is available.">>

MsgSendingPre ==
  <<"Sending PR diff (">>

MsgSendingPost ==
  <<" characters) to LLM provider at http://localhost:8090/analyze">>

StrNA ==
  <<"N/A">>

MsgCommentHeader ==
  <<"## PR Review Analysis: ">>

MsgNeedsReview ==
  <<"*", "*", "N", "E", "E", "D", "S", " ", "R", "E", "V", "I", "E", "W",
    "*", "*">>

MsgApproved ==
  <<"*", "*", "A", "P", "P", "R", "O", "V", "E", "D", "*", "*">>

StrUndefined ==
  <<"u", "n", "d", "e", "f", "i", "n", "e", "d">>

StrNull ==
  <<"n", "u", "l", "l">>

StrNaN ==
  <<"N", "a", "N">>

MsgReviewBody ==
  <<"Approved based on LLM analysis">>


\* part_004:72-97 (the template literal defaultPrompt, as one element)
MsgDefaultPrompt ==
  <<"<You are a code reviewer assistant ... Be thorough but concise in your review.>">>

\* part_004:98
MsgAdditionalInstructions ==
  <<"Additional Instructions: ">>
----------------------------------------------------------------------------
(* JavaScript values that flow through the analyzer.                       *)

Undefined == [t |-> "undefined", v |-> <<>>]
Null == [t |-> "null", v |-> <<>>]
Str(s) == [t |-> "str", v |-> s]

\* !x for these values
Falsy(x) == x.t \in {"undefined", "null"} \/ (x.t = "str" /\ x.v = <<>>)

\* String(x), as console.log and template strings print it
ToText(x) ==
  CASE x.t = "undefined" -> StrUndefined
    [] x.t = "null"      -> StrNull
    [] OTHER             -> x.v

\* console.log(x): the text and a newline, on standard output
Log(o, s) == o \o s \o <<NL>>

NoVerdict == <<"<none>">>

----------------------------------------------------------------------------
(* The bash step "Analyze PR with LLM" after the analyzer has returned.    *)

\* Positions of a text, and the least and the greatest of a set of them.
Positions(s) == 1..Len(s)
Least(S) == CHOOSE i \in S : \A j \in S : i <= j
Greatest(S) == CHOOSE i \in S : \A j \in S : j <= i

\* The only element of a set of one element.  (A text that goes from one
\* command to the next is bound as the element of such a set, which makes
\* it a value that is computed once.)
The(S) == CHOOSE x \in S : TRUE

\* $( ... ): command substitution removes the trailing newlines.
CommandSubst(s) ==
  LET kept == { i \in Positions(s) : s[i] # NL }
  IN  IF kept = {} THEN <<>> ELSE SubSeq(s, 1, Greatest(kept))

\* echo "$X": the text followed by a newline.
Echo(s) == s \o <<NL>>

\* Mutant of HeadN1: the head filter is dropped, the whole text goes through.
HeadAll(s) == s

\* head -n 1: everything up to and including the first newline.
HeadN1(s) ==
  LET nls == { i \in Positions(s) : s[i] = NL }
  IN  IF nls = {} THEN s ELSE SubSeq(s, 1, Least(nls))

\* [[ "$s" == *pat* ]]: pat occurs somewhere in s, compared byte for byte.
GlobContains(s, pat) ==
  \E i \in 1..(Len(s) - Len(pat) + 1) : SubSeq(s, i, i + Len(pat) - 1) = pat

\* DECISION=$(echo "$ANALYSIS" | head -n 1)
DecisionLine(analysis) ==
  The({ CommandSubst(line) : line \in {HeadN1(Echo(analysis))} })

\* if [[ "$DECISION" == *"APPROVE"* ]] ... pr_decision=approve / reject
DecisionOf(analysis) ==
  IF \E DECISION \in {DecisionLine(analysis)} : GlobContains(DECISION, Approve)
  THEN "approve" ELSE "reject"

\* Where the first backslash of a text is (0 when it has none).
FirstBSlash(s) ==
  IF \E i \in Positions(s) : s[i] = BSlash
  THEN CHOOSE i \in Positions(s) :
         s[i] = BSlash /\ \A j \in 1..(i - 1) : s[j] # BSlash
  ELSE 0

\* What follows position i of a text.
From(s, i) == SubSeq(s, i, Len(s))

\* echo -e: backslash escapes are expanded (\n and \\ are the ones that the
\* texts of this model can hold; another escaped character is left as it is).
\* The scan goes from one backslash to the next.
RECURSIVE EchoE(_)
EchoE(text) ==
  The({ The({ IF i = 0 THEN s
              ELSE IF i < Len(s) /\ s[i + 1] = "n"
                   THEN SubSeq(s, 1, i - 1) \o <<NL>> \o EchoE(From(s, i + 2))
              ELSE IF i < Len(s) /\ s[i + 1] = BSlash
                   THEN SubSeq(s, 1, i - 1) \o <<BSlash>> \o EchoE(From(s, i + 2))
              ELSE SubSeq(s, 1, i) \o EchoE(From(s, i + 1)) :
              i \in {FirstBSlash(s)} }) :
        s \in {text} })

\* The value of a step output written as  name<<EOF ... EOF : the lines up
\* to the first line that is exactly the delimiter, joined by newlines.
Delimiter == <<"E", "O", "F">>

\* Where the lines of a text start.
LineStarts(s) ==
  { i \in Positions(s) : i = 1 \/ s[i - 1] = NL }

\* The line that starts at position a, without its newline.
LineAt(s, a) ==
  LET nls == { i \in a..Len(s) : s[i] = NL }
  IN  IF nls = {} THEN SubSeq(s, a, Len(s)) ELSE SubSeq(s, a, Least(nls) - 1)

\* (The step always writes the delimiter line last, so there is one.)
HeredocValue(written) ==
  The({ LET ends == { a \in LineStarts(w) : LineAt(w, a) = Delimiter }
        IN  IF ends = {} THEN w ELSE SubSeq(w, 1, Least(ends) - 2) :
        w \in {written} })

PrStatus(decision) ==
  IF decision = "approve" THEN <<"<white_check_mark>", " ">> \o MsgApproved
  ELSE <<"<x>", " ">> \o MsgNeedsReview

\* COMMENT="## PR Review Analysis: $PR_STATUS\n\n$ANALYSIS"
\* echo "pr_comment<<EOF"; echo -e "$COMMENT"; echo "EOF"
PrComment(decision, analysis) ==
  The({ HeredocValue(Echo(EchoE(COMMENT)) \o Echo(Delimiter)) :
          COMMENT \in { MsgCommentHeader \o PrStatus(decision)
                          \o <<BSlash, "n", BSlash, "n">> \o analysis } })

\* Mutant of StepContinues: the shell runs without errexit.
StepContinuesNoErrexit(code) == TRUE

\* The step's shell is bash -e: a command that returns non-zero ends the
\* step, and a failed step ends the job (the next step is skipped).
StepContinues(code) == code = 0

\* exitCode while the analyzer has not ended
NoCode == 0 - 1

AnalyzeStepAbort ==
  /\ wpc = "analyze"
  /\ apc = "exited"
  /\ ~StepContinues(exitCode)
  /\ wpc' = "done"
  /\ jobStatus' = "failure"
  /\ UNCHANGED <<hostVars, analyzerVars, stdioVars, pr_decision, pr_comment, calls,
                 surfaceVars>>

\* Lines 59-82 of the workflow: the decision, the comment, then the two
\* kills; a kill of a server that has already exited fails the step.
AnalyzeStepOutputs ==
  /\ wpc = "analyze"
  /\ apc = "exited"
  /\ StepContinues(exitCode)
  /\ \E analysis \in {CommandSubst(out)} :
       \E decision \in {DecisionOf(analysis)} :
         /\ pr_decision' = decision
         /\ pr_comment' = PrComment(decision, analysis)
  /\ \E killsOk \in BOOLEAN :
       IF killsOk
       THEN wpc' = "process" /\ UNCHANGED jobStatus
       ELSE wpc' = "done" /\ jobStatus' = "failure"
  /\ UNCHANGED <<hostVars, analyzerVars, stdioVars, calls, surfaceVars>>

----------------------------------------------------------------------------
(* The github-script step "Process PR based on LLM decision".              *)

\* const comment = (template literal): the step output is pasted into a
\* template literal of the script; a backquote or a dollar-brace in it
\* breaks the script.
BackQuote == "<backquote>"

\* A text without backslashes that can stand in a template literal.
PlainCompiles(s) ==
  \A i \in Positions(s) :
    /\ s[i] # BackQuote
    /\ ~(s[i] = "$" /\ i < Len(s) /\ s[i + 1] = "{")

\* A backslash takes the character after it along; one at the very end
\* would escape the closing backquote.
RECURSIVE ScriptCompiles(_)
ScriptCompiles(text) ==
  \E s \in {text} :
    \E i \in {FirstBSlash(s)} :
      IF i = 0 THEN PlainCompiles(s)
      ELSE /\ PlainCompiles(SubSeq(s, 1, i - 1))
           /\ i < Len(s)
           /\ ScriptCompiles(From(s, i + 2))

RECURSIVE TemplateLiteral(_)
TemplateLiteral(text) ==
  The({ The({ IF i = 0 \/ i = Len(s) THEN s
              ELSE SubSeq(s, 1, i - 1)
                   \o (IF s[i + 1] = "n" THEN <<NL>> ELSE <<s[i + 1]>>)
                   \o TemplateLiteral(From(s, i + 2)) :
              i \in {FirstBSlash(s)} }) :
        s \in {text} })

NewCall(op, comment) ==
  [ op   |-> op,
    st   |-> "pending",
    arg  |-> CASE op = "comment" -> ""
               [] op = "review"  -> "APPROVE"
               [] op = "merge"   -> "squash"
               [] op = "label"   -> "needs-review",
    body |-> CASE op = "comment" -> comment
               [] op = "review"  -> MsgReviewBody
               [] OTHER          -> <<>> ]

Settle(cs, ok) == [cs EXCEPT ![Len(cs)].st = IF ok THEN "ok" ELSE "fail"]

\* Mutant of AfterComment: a failed comment call does not stop the script.
AfterCommentIgnoringFailure(ok, decision) ==
  IF decision = "approve" THEN "review" ELSE "label"

\* Mutant of AfterComment: the approval review is skipped.
AfterCommentMergeFirst(ok, decision) ==
  IF ~ok THEN "abort" ELSE IF decision = "approve" THEN "merge" ELSE "label"

\* Mutant of AfterComment: every decision is treated as an approval.
AfterCommentAlwaysApprove(ok, decision) ==
  IF ~ok THEN "abort" ELSE "review"

\* await createComment(...) throws on failure (nothing catches it); then
\* if (decision === 'approve') createReview ... else addLabels ...
AfterComment(ok, decision) ==
  IF ~ok THEN "abort"
  ELSE IF decision = "approve" THEN "review" ELSE "label"

\* Mutant of AfterReview: a failed review does not stop the script.
AfterReviewIgnoringFailure(ok) == "merge"

\* await createReview(...) is outside the try: a failure ends the script.
AfterReview(ok) == IF ok THEN "merge" ELSE "abort"

\* Mutant of AfterMerge: a PR that cannot be merged gets the label.
AfterMergeThenLabel(ok) == IF ok THEN "success" ELSE "label"

\* Mutant of AfterMerge: the merge is not wrapped in try/catch.
AfterMergeUncaught(ok) == IF ok THEN "success" ELSE "abort"

\* try { await merge(...) } catch (error) { console.log(...) }
AfterMerge(ok) == "success"

\* Mutant of AfterLabel: a failed label call is made again.
AfterLabelRetry(ok) == IF ok THEN "success" ELSE "label"

\* Mutant of AfterLabel: the label call is not wrapped in try/catch.
AfterLabelUncaught(ok) == IF ok THEN "success" ELSE "abort"

\* try { await addLabels(...) } catch (error) { console.log(...) }
AfterLabel(ok) == "success"

\* Mutant of PostComment: a body that is already on the PR is not posted
\* again.
PostCommentOnce(cs, body) ==
  IF \E i \in 1..Len(cs) : cs[i] = body THEN cs ELSE Append(cs, body)

\* github.rest.issues.createComment: a successful call adds a comment to the
\* PR, whatever is on it already.
PostComment(cs, body) == Append(cs, body)

\* The last call returns; the script goes on to nxt.
Proceed(ok, nxt) ==
  CASE nxt \in {"review", "merge", "label"} ->
         /\ calls' = Append(Settle(calls, ok), NewCall(nxt, <<>>))
         /\ wpc' = nxt
         /\ UNCHANGED jobStatus
    [] nxt = "abort" ->
         /\ calls' = Settle(calls, ok)
         /\ wpc' = "done"
         /\ jobStatus' = "failure"
    [] nxt = "success" ->
         /\ calls' = Settle(calls, ok)
         /\ wpc' = "done"
         /\ jobStatus' = "success"

ProcessStart ==
  /\ wpc = "process"
  /\ IF ScriptCompiles(pr_comment)
     THEN /\ calls' = Append(calls, NewCall("comment", TemplateLiteral(pr_comment)))
          /\ wpc' = "comment"
          /\ UNCHANGED jobStatus
     ELSE /\ wpc' = "done"
          /\ jobStatus' = "failure"
          /\ UNCHANGED calls
  /\ UNCHANGED <<hostVars, analyzerVars, stdioVars, pr_decision, pr_comment,
                 surfaceVars>>

CommentReturn ==
  /\ wpc = "comment"
  /\ \E ok \in BOOLEAN :
       /\ Proceed(ok, AfterComment(ok, pr_decision))
       /\ comments' = IF ok THEN PostComment(comments, calls[Len(calls)].body)
                      ELSE comments
  /\ UNCHANGED <<hostVars, analyzerVars, stdioVars, pr_decision, pr_comment, finished>>

ReviewReturn ==
  /\ wpc = "review"
  /\ \E ok \in BOOLEAN : Proceed(ok, AfterReview(ok))
  /\ UNCHANGED <<hostVars, analyzerVars, stdioVars, pr_decision, pr_comment,
                 surfaceVars>>

MergeReturn ==
  /\ wpc = "merge"
  /\ \E ok \in BOOLEAN : Proceed(ok, AfterMerge(ok))
  /\ UNCHANGED <<hostVars, analyzerVars, stdioVars, pr_decision, pr_comment,
                 surfaceVars>>

LabelReturn ==
  /\ wpc = "label"
  /\ \E ok \in BOOLEAN : Proceed(ok, AfterLabel(ok))
  /\ UNCHANGED <<hostVars, analyzerVars, stdioVars, pr_decision, pr_comment,
                 surfaceVars>>

----------------------------------------------------------------------------
(* Inputs of a run.                                                        *)

Owners == { <<>>, <<"o">>, Approve }
Repos == { <<>>, <<"r">> }
PrNumbers == { <<>>, <<"7">>, <<"x">>, <<"0">>, <<"-", "3">> }

Argvs == [owner : Owners, repo : Repos, num : PrNumbers]

IsDigit(c) == c \in {"0", "1", "2", "3", "4", "5", "6", "7", "8", "9"}

DigitVal(c) ==
  CASE c = "0" -> 0 [] c = "1" -> 1 [] c = "2" -> 2 [] c = "3" -> 3
    [] c = "4" -> 4 [] c = "5" -> 5 [] c = "6" -> 6 [] c = "7" -> 7
    [] c = "8" -> 8 [] c = "9" -> 9

RECURSIVE DigitsPrefix(_)
DigitsPrefix(s) ==
  IF s # <<>> /\ IsDigit(Head(s)) THEN <<Head(s)>> \o DigitsPrefix(Tail(s))
  ELSE <<>>

RECURSIVE DigitsValue(_)
DigitsValue(ds) ==
  IF ds = <<>> THEN 0
  ELSE 10 * DigitsValue(SubSeq(ds, 1, Len(ds) - 1)) + DigitVal(ds[Len(ds)])

\* parseInt(s): an optional sign, then the leading digits; NaN without any.
ParseInt(s) ==
  LET neg  == s # <<>> /\ Head(s) = "-"
      rest == IF s # <<>> /\ Head(s) \in {"-", "+"} THEN Tail(s) ELSE s
      ds   == DigitsPrefix(rest)
  IN  IF ds = <<>> THEN [nan |-> TRUE, v |-> 0]
      ELSE [nan |-> FALSE, v |-> IF neg THEN 0 - DigitsValue(ds) ELSE DigitsValue(ds)]

NumberToText(n) ==
  IF n.nan THEN StrNaN
  ELSE IF n.v < 0 THEN <<"-">> \o NatToChars(0 - n.v) ELSE NatToChars(n.v)

\* owner/repo#number, as the progress lines print it
RefText(a, numText) == a.owner \o <<"/">> \o a.repo \o <<"#">> \o numText

\* The diff texts a provider can return (one non-empty diff stands for all).
SomeDiff == <<"d", "i", "f", "f">>

ContentValues == { Undefined, Null, Str(<<>>), Str(SomeDiff) }

\* What the chat-completion call of the provider can come back with.
Completions ==
  { [kind |-> k, text |-> <<>>] :
      k \in {"throw", "nochoices", "nomessage", "nocontent", "nullcontent"} }
  \cup { [kind |-> "text", text |-> t] : t \in Texts }

\* completion.choices[0].message.content
CompletionContent(c) ==
  CASE c.kind = "text"        -> Str(c.text)
    [] c.kind = "nullcontent" -> Null
    [] OTHER                  -> Undefined

\* The history of what the backend answered.
BackendAnswer(c) ==
  IF c.kind = "text" THEN (IF c.text = <<>> THEN "emptytext" ELSE "text")
  ELSE c.kind

VerdictOf(c) == IF c.kind = "text" THEN c.text ELSE NoVerdict

----------------------------------------------------------------------------
(* main(): the catch block.                                                *)

\* catch (error) { console.error(...); process.exit(1); }
Fail(kind) ==
  /\ failure' = kind
  /\ apc' = "exited"
  /\ exitCode' = 1

----------------------------------------------------------------------------
(* The LLM provider's handlers (one chat-completion request each).         *)

\* app.post('/analyze'): 400 without diff or prompt; 500 when the call
\* throws or the completion has no choices[0].message; otherwise
\* { response: message.content } (JSON drops an undefined field).
AnalyzeEndpoint(diff, prompt, c) ==
  IF Falsy(diff) \/ Falsy(prompt)
  THEN [status |-> 400, response |-> Undefined, backend |-> 0]
  ELSE IF c.kind \in {"throw", "nochoices", "nomessage"}
  THEN [status |-> 500, response |-> Undefined, backend |-> 1]
  ELSE [status |-> 200, response |-> CompletionContent(c), backend |-> 1]

\* app.post('/execute') of the analyze_pr_diff provider: 400 for another
\* tool name or a missing diff; 500 when the call throws or the completion
\* has no non-empty choices[0].message.content; otherwise { content }.
ExecuteEndpoint(name, diff, c) ==
  IF name # "analyze_pr_diff"
  THEN [status |-> 400, content |-> Undefined, backend |-> 0]
  ELSE IF Falsy(diff)
  THEN [status |-> 400, content |-> Undefined, backend |-> 0]
  ELSE IF c.kind = "throw" \/ Falsy(CompletionContent(c))
  THEN [status |-> 500, content |-> Undefined, backend |-> 1]
  ELSE [status |-> 200, content |-> CompletionContent(c), backend |-> 1]

\* The prompt the script sends with the diff (fixed, non-empty).
ScriptPrompt == Str(<<"r", "u", "b", "r", "i", "c">>)

----------------------------------------------------------------------------
(* .github/scripts/analyze-pr.js: probe, fetch and analysis over HTTP.     *)

\* if (!result.content) throw new Error('No diff content returned ...')
ScriptHasContent(content) == ~Falsy(content)

\* What the diff provider answered, from the body of its response.
AnswerOf(body) ==
  IF ~Falsy(body.error) THEN "error"
  ELSE CASE body.content.t = "undefined" -> "missing"
         [] body.content.t = "null"      -> "null"
         [] body.content.v = <<>>        -> "empty"
         [] OTHER                        -> "text"

DiffBodies == [content : ContentValues, error : {Undefined, Str(<<"e">>)}]

\* The outcomes of an HTTP request for the diff: no connection, a status
\* that is not ok, or a JSON body.
DiffResponses ==
  { [net |-> "err", ok |-> FALSE, body |-> [content |-> Undefined, error |-> Undefined]],
    [net |-> "ok", ok |-> FALSE, body |-> [content |-> Undefined, error |-> Undefined]] }
  \cup { [net |-> "ok", ok |-> TRUE, body |-> b] : b \in DiffBodies }

\* main(): the argument check, then verifyMCPServerAvailability() sends
\* GET /capabilities.
ScriptStart ==
  /\ variant = "script"
  /\ apc = "start"
  /\ IF Falsy(Str(argv.owner)) \/ Falsy(Str(argv.repo)) \/ Falsy(Str(argv.num))
     THEN /\ Fail("InvalidReference")
          /\ UNCHANGED probes
     ELSE /\ probes' = probes + 1
          /\ apc' = "probe"
          /\ UNCHANGED <<failure, exitCode>>
  /\ UNCHANGED <<hostVars, variant, argv, probeAnswer, out, prDiff, diffAnswer, completion, verdict,
                 diffRequests, llmRequests, backendRequests, stdioVars,
                 wpc, pr_decision, pr_comment, calls, jobStatus, surfaceVars>>

\* How GET /capabilities can come back: an ok status, another status, or
\* no connection.
ProbeAnswers == {"ok", "notok", "neterr"}

\* Mutant of ServerAvailable: a failed probe only warns.
ServerAvailableAnyway(r) == TRUE

\* verifyMCPServerAvailability(): true only for an ok response
\* (capabilitiesRes.ok in the version with the probe inside the fetch).
ServerAvailable(r) == r = "ok"

\* The probe returns; when the server is available fetchPRDiffFromMCP()
\* sends POST /execute get_diff_pr.
ScriptProbeReturn ==
  /\ variant = "script"
  /\ apc = "probe"
  /\ \E r \in ProbeAnswers :
       /\ probeAnswer' = r
       /\ IF ServerAvailable(r)
          THEN /\ out' = Log(Log(out, MsgServerAvailable),
                             MsgFetchingPre \o RefText(argv, argv.num)
                               \o MsgFetchingScriptPost)
               /\ diffRequests' = diffRequests + 1
               /\ apc' = "fetch"
               /\ UNCHANGED <<failure, exitCode>>
          ELSE /\ Fail("ProviderUnavailable")
               /\ UNCHANGED <<out, diffRequests>>
  /\ UNCHANGED <<hostVars, variant, argv, prDiff, diffAnswer, completion, verdict,
                 probes, llmRequests, backendRequests, stdioVars,
                 wpc, pr_decision, pr_comment, calls, jobStatus, surfaceVars>>

\* The diff request returns; with content analyzePRWithLLM() sends
\* POST /analyze { diff, prompt }.
ScriptFetchReturn ==
  /\ variant = "script"
  /\ apc = "fetch"
  /\ \E r \in DiffResponses :
       IF r.net = "err" \/ ~r.ok
       THEN /\ Fail("ProviderUnavailable")
            /\ UNCHANGED <<out, prDiff, diffAnswer, llmRequests>>
       ELSE /\ diffAnswer' = AnswerOf(r.body)
            /\ IF ~ScriptHasContent(r.body.content)
               THEN /\ Fail("EmptyDiff")
                    /\ UNCHANGED <<out, prDiff, llmRequests>>
               ELSE /\ out' = Log(out, MsgFetchedPre
                                    \o NatToChars(Len(r.body.content.v))
                                    \o MsgFetchedScriptPost)
                    /\ prDiff' = r.body.content
                    /\ llmRequests' = llmRequests + 1
                    /\ apc' = "llm"
                    /\ UNCHANGED <<failure, exitCode>>
  /\ UNCHANGED <<hostVars, variant, argv, probeAnswer, completion, verdict, probes, diffRequests,
                 backendRequests, stdioVars, wpc, pr_decision, pr_comment,
                 calls, jobStatus, surfaceVars>>

\* The analysis request returns: the provider's /analyze handler has run
\* (unless there was no connection); main() prints the result and ends.
ScriptLlmReturn ==
  /\ variant = "script"
  /\ apc = "llm"
  /\ \/ /\ Fail("BackendUnreachable")
        /\ UNCHANGED <<out, completion, verdict, backendRequests>>
     \/ \E c \in Completions :
          LET res == AnalyzeEndpoint(prDiff, ScriptPrompt, c)
          IN  /\ backendRequests' = backendRequests + res.backend
              /\ completion' = IF res.backend = 1 THEN BackendAnswer(c) ELSE completion
              /\ verdict' = IF res.backend = 1 THEN VerdictOf(c) ELSE verdict
              /\ IF res.status # 200
                 THEN /\ Fail("BackendError")
                      /\ UNCHANGED out
                 ELSE /\ out' = Log(Log(Log(out, MsgAnalysisResult), MsgRule),
                                    ToText(res.response))
                      /\ apc' = "exited"
                      /\ exitCode' = 0
                      /\ UNCHANGED failure
  /\ UNCHANGED <<hostVars, variant, argv, probeAnswer, prDiff, diffAnswer, probes, diffRequests,
                 llmRequests, stdioVars, wpc, pr_decision, pr_comment,
                 calls, jobStatus, surfaceVars>>

----------------------------------------------------------------------------
(* The HTTP analyzer whose fetchPRDiffFromMCP() makes the probe itself and  *)
(* checks the provider's error payload.                                     *)

\* if (result.error) throw new Error('MCP execution returned an error: ...')
HttpErrorPayload(body) == ~Falsy(body.error)

\* if (result.content === undefined || result.content === null) throw ...
HttpContentMissing(content) == content.t \in {"undefined", "null"}

\* main(): the argument checks (MCP_GITHUB_PORT is set by the workflow);
\* fetchPRDiffFromMCP() then sends GET /capabilities.
HttpStart ==
  /\ variant = "http"
  /\ apc = "start"
  /\ IF Falsy(Str(argv.owner)) \/ Falsy(Str(argv.repo)) \/ Falsy(Str(argv.num))
        \/ ParseInt(argv.num).nan
     THEN /\ Fail("InvalidReference")
          /\ UNCHANGED <<out, probes>>
     ELSE LET ref == RefText(argv, NumberToText(ParseInt(argv.num)))
          IN  /\ out' = Log(Log(out, MsgFetchingPre \o ref \o MsgFetchingHttpPost),
                            MsgConnectingMcpPre \o ref)
              /\ probes' = probes + 1
              /\ apc' = "probe"
              /\ UNCHANGED <<failure, exitCode>>
  /\ UNCHANGED <<hostVars, variant, argv, probeAnswer, prDiff, diffAnswer, completion, verdict,
                 diffRequests, llmRequests, backendRequests, stdioVars,
                 wpc, pr_decision, pr_comment, calls, jobStatus, surfaceVars>>

\* The probe returns; when it is ok the function sends POST /execute
\* get_pull_request_diff, otherwise it throws.
HttpProbeReturn ==
  /\ variant = "http"
  /\ apc = "probe"
  /\ \E r \in ProbeAnswers :
       /\ probeAnswer' = r
       /\ IF ServerAvailable(r)
          THEN /\ out' = Log(out, MsgMcpAvailable)
               /\ diffRequests' = diffRequests + 1
               /\ apc' = "fetch"
               /\ UNCHANGED <<failure, exitCode>>
          ELSE /\ Fail("ProviderUnavailable")
               /\ UNCHANGED <<out, diffRequests>>
  /\ UNCHANGED <<hostVars, variant, argv, prDiff, diffAnswer, completion, verdict,
                 probes, llmRequests, backendRequests, stdioVars,
                 wpc, pr_decision, pr_comment, calls, jobStatus, surfaceVars>>

\* The diff request returns.  An error payload and a missing content throw;
\* main() then calls analyzePRWithLLM(), which refuses an empty diff and
\* otherwise sends POST /analyze { diff, prompt }.
HttpFetchReturn ==
  /\ variant = "http"
  /\ apc = "fetch"
  /\ \E r \in DiffResponses :
       IF r.net = "err" \/ ~r.ok
       THEN /\ Fail("ProviderUnavailable")
            /\ UNCHANGED <<out, prDiff, diffAnswer, llmRequests>>
       ELSE /\ diffAnswer' = AnswerOf(r.body)
            /\ IF HttpErrorPayload(r.body)
               THEN /\ Fail("ProviderError")
                    /\ UNCHANGED <<out, prDiff, llmRequests>>
               ELSE IF HttpContentMissing(r.body.content)
               THEN /\ Fail("EmptyDiff")
                    /\ UNCHANGED <<out, prDiff, llmRequests>>
               ELSE LET d == r.body.content
                        n == IF Falsy(d) THEN StrNA ELSE NatToChars(Len(d.v))
                    IN  /\ prDiff' = d
                        /\ out' = Log(Log(Log(out, MsgFetchedPre
                                                     \o NatToChars(Len(d.v))
                                                     \o MsgFetchedScriptPost),
                                              MsgAnalyzing),
                                      MsgSendingPre \o n \o MsgSendingPost)
                        /\ IF Falsy(d)
                           THEN /\ Fail("EmptyDiff")
                                /\ UNCHANGED llmRequests
                           ELSE /\ llmRequests' = llmRequests + 1
                                /\ apc' = "llm"
                                /\ UNCHANGED <<failure, exitCode>>
  /\ UNCHANGED <<hostVars, variant, argv, probeAnswer, completion, verdict, probes, diffRequests,
                 backendRequests, stdioVars, wpc, pr_decision, pr_comment,
                 calls, jobStatus, surfaceVars>>

\* The analysis request returns: the provider's /analyze handler has run
\* (unless there was no connection); main() prints the result and ends.
HttpLlmReturn ==
  /\ variant = "http"
  /\ apc = "llm"
  /\ \/ /\ Fail("BackendUnreachable")
        /\ UNCHANGED <<out, completion, verdict, backendRequests>>
     \/ \E c \in Completions :
          LET res == AnalyzeEndpoint(prDiff, ScriptPrompt, c)
          IN  /\ backendRequests' = backendRequests + res.backend
              /\ completion' = IF res.backend = 1 THEN BackendAnswer(c) ELSE completion
              /\ verdict' = IF res.backend = 1 THEN VerdictOf(c) ELSE verdict
              /\ IF res.status # 200
                 THEN /\ Fail("BackendError")
                      /\ UNCHANGED out
                 ELSE /\ out' = Log(Log(Log(Log(Log(out, MsgReceived),
                                                <<NL>> \o MsgAnalysisResult),
                                            MsgRule),
                                        ToText(res.response)),
                                    MsgRule)
                      /\ apc' = "exited"
                      /\ exitCode' = 0
                      /\ UNCHANGED failure
  /\ UNCHANGED <<hostVars, variant, argv, probeAnswer, prDiff, diffAnswer, probes, diffRequests,
                 llmRequests, stdioVars, wpc, pr_decision, pr_comment,
                 calls, jobStatus, surfaceVars>>
----------------------------------------------------------------------------
(* lib/analyze-pr.js: the diff over the stdio of a temporary subprocess.   *)

\* The subprocess's standard output is a sequence of tokens: the braces of
\* a JSON object, fields of it ("content": a diff, "content": "",
\* "content": null, "error": ..., "error": ... with "content": a diff,
\* another field) or text that is no JSON.
FieldTokens == {"c_text", "c_empty", "c_null", "error", "error_c_text", "other"}
ContentTokens == {"c_text", "c_empty", "c_null", "error_c_text"}
ErrorTokens == {"error", "error_c_text"}
Tokens == {"{", "}", "noise"} \cup FieldTokens

RECURSIVE TokenSeqs(_)
TokenSeqs(n) ==
  IF n = 0 THEN { <<>> }
  ELSE LET prev == TokenSeqs(n - 1)
       IN  prev \cup { s \o <<t>> : s \in prev, t \in Tokens }

\* responseData.indexOf('{'), 0 when absent
IndexOf(s, t) ==
  IF \E i \in 1..Len(s) : s[i] = t
  THEN CHOOSE i \in 1..Len(s) : s[i] = t /\ \A j \in 1..(i - 1) : s[j] # t
  ELSE 0

\* responseData.lastIndexOf('}'), 0 when absent
LastIndexOf(s, t) ==
  IF \E i \in 1..Len(s) : s[i] = t
  THEN CHOOSE i \in 1..Len(s) : s[i] = t /\ \A j \in (i + 1)..Len(s) : s[j] # t
  ELSE 0

FieldValue(t) ==
  CASE t \in {"c_text", "error_c_text"} -> Str(SomeDiff)
    [] t = "c_empty" -> Str(<<>>)
    [] t = "c_null"  -> Null

\* JSON.parse of the tokens of one object: a syntax error unless the text
\* is { field ... field }; a repeated key keeps its last value.
JsonParse(s) ==
  IF Len(s) >= 2 /\ s[1] = "{" /\ s[Len(s)] = "}"
     /\ \A i \in 2..(Len(s) - 1) : s[i] \in FieldTokens
  THEN LET cs == { i \in 2..(Len(s) - 1) : s[i] \in ContentTokens }
           lastC == CHOOSE i \in cs : \A j \in cs : j <= i
       IN  [ valid   |-> TRUE,
             content |-> IF cs = {} THEN Undefined ELSE FieldValue(s[lastC]),
             error   |-> IF \E i \in 2..(Len(s) - 1) : s[i] \in ErrorTokens
                         THEN Str(<<"e">>) ELSE Undefined ]
  ELSE [valid |-> FALSE, content |-> Undefined, error |-> Undefined]

\* The stdout handler's scan of the buffer: "resolve" with the content,
\* "reject" for an error payload, or "wait" (nothing parsed yet); error is
\* the error field of the object that was parsed.
ScanResponse(rd) ==
  LET jsonStart == IndexOf(rd, "{")
      jsonEnd   == LastIndexOf(rd, "}")
      parsed    == IF jsonStart # 0 /\ jsonEnd > jsonStart
                   THEN JsonParse(SubSeq(rd, jsonStart, jsonEnd))
                   ELSE JsonParse(<<>>)
  IN  IF parsed.valid /\ parsed.content.t # "undefined"
      THEN [act |-> "resolve", v |-> parsed.content, error |-> parsed.error]
      ELSE IF parsed.valid /\ ~Falsy(parsed.error)
      THEN [act |-> "reject", v |-> Undefined, error |-> parsed.error]
      ELSE [act |-> "wait", v |-> Undefined, error |-> Undefined]

\* What the provider answered, for a buffer that no further output follows.
FinalAnswer(rd) ==
  LET jsonStart == IndexOf(rd, "{")
      jsonEnd   == LastIndexOf(rd, "}")
      parsed    == IF jsonStart # 0 /\ jsonEnd > jsonStart
                   THEN JsonParse(SubSeq(rd, jsonStart, jsonEnd))
                   ELSE JsonParse(<<>>)
  IN  IF parsed.valid THEN AnswerOf(parsed) ELSE "garbled"

NoPromise == [st |-> "none", v |-> Undefined, kind |-> "none"]
Pending == [st |-> "pending", v |-> Undefined, kind |-> "none"]
Resolved(v) == [st |-> "resolved", v |-> v, kind |-> "none"]
Rejected(kind) == [st |-> "rejected", v |-> Undefined, kind |-> kind]

\* Mutant of SettleWith: a later resolve or reject replaces the outcome.
SettleAlways(p, q) == q

\* resolve / reject: only the first call settles the promise.
SettleWith(p, q) == IF p.st = "pending" THEN q ELSE p

\* if (prDiff === null || prDiff === undefined) throw ...
LibDiffMissing(d) == d.t \in {"null", "undefined"}

\* Mutant of LibDiffEmpty: analyzePRWithLLM() sends whatever it is given.
LibDiffEmptyUnchecked(d) == FALSE

\* if (!prDiff) throw new Error('Cannot analyze an empty diff.')
LibDiffEmpty(d) == Falsy(d)

\* main(): the argument checks; then executeMCPCommandStdio() spawns the
\* subprocess, writes the command to its stdin and starts the timer.
\* (The workflow sets GITHUB_TOKEN and LLM_PROVIDER_PORT for the step.)
LibStart ==
  /\ variant = "lib"
  /\ apc = "start"
  /\ IF Falsy(Str(argv.owner)) \/ Falsy(Str(argv.repo)) \/ Falsy(Str(argv.num))
        \/ ParseInt(argv.num).nan
     THEN /\ Fail("InvalidReference")
          /\ UNCHANGED <<out, diffRequests, stdioVars>>
     ELSE /\ out' = Log(Log(out, MsgFetchingPre
                                   \o RefText(argv, NumberToText(ParseInt(argv.num)))
                                   \o MsgFetchingLibPost),
                        MsgSpawning)
          /\ child' = "alive"
          /\ promise' = Pending
          /\ timer' = "active"
          /\ diffRequests' = diffRequests + 1
          /\ apc' = "stdio"
          /\ UNCHANGED <<failure, exitCode, responseData, errorData,
                         responseComplete>>
  /\ UNCHANGED <<hostVars, variant, argv, probeAnswer, prDiff, diffAnswer, completion, verdict,
                 probes, llmRequests, backendRequests,
                 wpc, pr_decision, pr_comment, calls, jobStatus, surfaceVars>>

\* main() after `await executeMCPCommandStdio(...)`: it runs as soon as the
\* promise settles (p is the promise after the event, o the output so far).
\* A rejection goes to the catch block; a diff goes to analyzePRWithLLM(),
\* which sends POST /execute analyze_pr_diff.
MainAfterFetch(p, o) ==
  IF apc = "stdio" /\ promise.st = "pending" /\ p.st # "pending"
  THEN IF p.st = "rejected"
       THEN /\ Fail(p.kind)
            /\ out' = o
            /\ UNCHANGED <<prDiff, llmRequests>>
       ELSE /\ prDiff' = p.v
            /\ IF LibDiffMissing(p.v)
               THEN /\ Fail("EmptyDiff")
                    /\ out' = o
                    /\ UNCHANGED llmRequests
               ELSE LET o2 == Log(Log(Log(o, MsgFetchedPre
                                               \o NatToChars(Len(p.v.v))
                                               \o MsgFetchedLibPost),
                                      MsgAnalyzing),
                                  MsgConnecting)
                    IN  /\ out' = o2
                        /\ IF LibDiffEmpty(p.v)
                           THEN /\ Fail("EmptyDiff")
                                /\ UNCHANGED llmRequests
                           ELSE /\ llmRequests' = llmRequests + 1
                                /\ apc' = "llm"
                                /\ UNCHANGED <<failure, exitCode>>
  ELSE /\ out' = o
       /\ UNCHANGED <<apc, failure, exitCode, prDiff, llmRequests>>

\* mcpServer.stdout.on('data'): append the chunk and scan the buffer.
LibStdoutData ==
  /\ variant = "lib"
  /\ apc \in {"stdio", "llm", "returned"}
  /\ child = "alive"
  /\ \E chunk \in TokenSeqs(MaxResponse - Len(responseData)) \ { <<>> } :
       LET rd   == responseData \o chunk
           scan == ScanResponse(rd)
       IN  /\ responseData' = rd
           /\ CASE scan.act = "resolve" ->
                     /\ responseComplete' = TRUE
                     /\ timer' = "cleared"
                     /\ promise' = SettleWith(promise, Resolved(scan.v))
                     /\ diffAnswer' = IF promise.st = "pending"
                                      THEN AnswerOf([content |-> scan.v, error |-> scan.error])
                                      ELSE diffAnswer
                     /\ MainAfterFetch(promise', Log(out, MsgParsed))
                [] scan.act = "reject" ->
                     /\ responseComplete' = TRUE
                     /\ timer' = "cleared"
                     /\ promise' = SettleWith(promise, Rejected("ProviderError"))
                     /\ diffAnswer' = IF promise.st = "pending" THEN "error"
                                      ELSE diffAnswer
                     /\ MainAfterFetch(promise', out)
                [] scan.act = "wait" ->
                     /\ UNCHANGED <<responseComplete, timer, promise, diffAnswer,
                                    apc, out, failure, exitCode, prDiff,
                                    llmRequests>>
  /\ UNCHANGED <<hostVars, variant, argv, probeAnswer, completion, verdict, probes, diffRequests,
                 backendRequests, child, errorData,
                 wpc, pr_decision, pr_comment, calls, jobStatus, surfaceVars>>

\* mcpServer.stderr.on('data'): the text is kept for the error messages.
LibStderrData ==
  /\ variant = "lib"
  /\ apc \in {"stdio", "llm", "returned"}
  /\ child = "alive"
  /\ ~errorData
  /\ errorData' = TRUE
  /\ UNCHANGED <<hostVars, analyzerVars, child, promise, responseData,
                 responseComplete, timer,
                 wpc, pr_decision, pr_comment, calls, jobStatus, surfaceVars>>

\* mcpServer.on('error'): the subprocess could not be spawned.
LibSpawnError ==
  /\ variant = "lib"
  /\ apc = "stdio"
  /\ child = "alive"
  /\ responseData = <<>>
  /\ ~errorData
  /\ child' = "failed"
  /\ promise' = SettleWith(promise, Rejected("ProviderUnavailable"))
  /\ MainAfterFetch(promise', out)
  /\ UNCHANGED <<hostVars, variant, argv, probeAnswer, diffAnswer, completion, verdict, probes,
                 diffRequests, backendRequests, responseData, errorData,
                 responseComplete, timer,
                 wpc, pr_decision, pr_comment, calls, jobStatus, surfaceVars>>

\* mcpServer.on('close'): without a complete response the promise is
\* rejected and the timer cleared.  After the close the buffers of the call
\* are read by nobody; the model empties responseData.
LibClose ==
  /\ variant = "lib"
  /\ apc \in {"stdio", "llm", "returned"}
  /\ child \in {"alive", "killed"}
  /\ child' = "closed"
  /\ responseData' = <<>>
  /\ IF ~responseComplete
     THEN /\ timer' = "cleared"
          /\ promise' = SettleWith(promise, Rejected("ProviderUnavailable"))
          /\ diffAnswer' = IF promise.st = "pending" THEN FinalAnswer(responseData)
                           ELSE diffAnswer
          /\ MainAfterFetch(promise', out)
     ELSE /\ UNCHANGED <<timer, promise, diffAnswer, apc, out, failure,
                         exitCode, prDiff, llmRequests>>
  /\ UNCHANGED <<hostVars, variant, argv, probeAnswer, completion, verdict, probes, diffRequests,
                 backendRequests, errorData, responseComplete,
                 wpc, pr_decision, pr_comment, calls, jobStatus, surfaceVars>>

\* Mutant of KillIfAlive: the timeout leaves the subprocess running.
KillNever(c) == c

\* if (!mcpServer.killed) mcpServer.kill();
KillIfAlive(c) == IF c = "alive" THEN "killed" ELSE c

\* The 60 s timer fires: without a complete response the subprocess is
\* killed and the promise rejected.
LibTimeout ==
  /\ variant = "lib"
  /\ apc \in {"stdio", "llm", "returned"}
  /\ timer = "active"
  /\ timer' = "fired"
  /\ IF ~responseComplete
     THEN /\ child' = KillIfAlive(child)
          /\ promise' = SettleWith(promise, Rejected("ProviderUnavailable"))
          /\ MainAfterFetch(promise', out)
     ELSE /\ UNCHANGED <<child, promise, apc, out, failure, exitCode, prDiff,
                         llmRequests>>
  /\ UNCHANGED <<hostVars, variant, argv, probeAnswer, diffAnswer, completion, verdict, probes,
                 diffRequests, backendRequests, responseData, errorData,
                 responseComplete,
                 wpc, pr_decision, pr_comment, calls, jobStatus, surfaceVars>>

\* The analysis request returns: the provider's /execute handler has run
\* (unless there was no connection); main() prints the result and returns.
LibLlmReturn ==
  /\ variant = "lib"
  /\ apc = "llm"
  /\ \/ /\ Fail("BackendUnreachable")
        /\ UNCHANGED <<out, completion, verdict, backendRequests>>
     \/ \E c \in Completions :
          LET res == ExecuteEndpoint("analyze_pr_diff", prDiff, c)
          IN  /\ backendRequests' = backendRequests + res.backend
              /\ completion' = IF res.backend = 1 THEN BackendAnswer(c) ELSE completion
              /\ verdict' = IF res.backend = 1 THEN VerdictOf(c) ELSE verdict
              /\ IF res.status # 200
                 THEN /\ Fail("BackendError")
                      /\ UNCHANGED out
                 ELSE IF res.content.t \in {"undefined", "null"}
                 THEN /\ Fail("MalformedBackendResponse")
                      /\ UNCHANGED out
                 ELSE /\ out' = Log(Log(Log(Log(Log(out, MsgReceived),
                                                <<NL>> \o MsgAnalysisResult),
                                            MsgRule),
                                        ToText(res.content)),
                                    MsgRule)
                      /\ apc' = "returned"
                      /\ UNCHANGED <<failure, exitCode>>
  /\ UNCHANGED <<hostVars, variant, argv, probeAnswer, prDiff, diffAnswer, probes, diffRequests,
                 llmRequests, stdioVars, wpc, pr_decision, pr_comment,
                 calls, jobStatus, surfaceVars>>

\* main() has returned: the process ends with status 0 once nothing keeps
\* its event loop alive (the subprocess has closed, no timer is pending).
LibExit ==
  /\ variant = "lib"
  /\ apc = "returned"
  /\ child \in {"closed", "failed"}
  /\ timer # "active"
  /\ apc' = "exited"
  /\ exitCode' = 0
  /\ UNCHANGED <<hostVars, variant, argv, probeAnswer, out, failure, prDiff, diffAnswer, completion,
                 verdict, probes, diffRequests, llmRequests, backendRequests,
                 stdioVars, wpc, pr_decision, pr_comment, calls, jobStatus, surfaceVars>>

----------------------------------------------------------------------------
(* index.js: startLLMProvider() and analyzePR() used by one process for    *)
(* several analyses at a time.                                             *)

\* The analyses the process runs, and the provider port each is given
\* (options.port of its startLLMProvider call).
Analyses == {1, 2}
PortOf(i) == 8090 + i

\* options of analyzePR: owner, repo and prNumber, given or not.
Given == Str(<<"x">>)
AnalyzeOptions == [owner : {Given, Undefined}, repo : {Given, Undefined},
                   prNumber : {Given, Undefined}]

\* What the analyzer subprocess writes in one chunk, and how it ends (its
\* exit code; "null" when a signal ended it).
OutputChunks == { <<"a">>, <<NL>> }
ExitCodes == {"0", "1", "null"}

NewAnalysis(o) ==
  [ options      |-> o,
    st           |-> "new",
    providerPort |-> 0,      \* the port its provider was started with
    analyzerPort |-> 0,      \* LLM_PROVIDER_PORT in its analyzer's environment
    spawned      |-> 0,      \* analyzer subprocesses spawned
    output       |-> <<>>,   \* let output
    errLogged    |-> FALSE,  \* console.error of the analyzer's stderr
    code         |-> "none",
    result       |-> [st |-> "none", v |-> <<>>] ]

\* startLLMProvider(options): the port goes to process.env, and the
\* provider is spawned with process.env as its environment.
StartLLMProvider(i) ==
  /\ analyses[i].st = "new"
  /\ envLlmPort' = PortOf(i)
  /\ analyses' = [analyses EXCEPT ![i].st = "provider",
                                  ![i].providerPort = envLlmPort']
  /\ UNCHANGED <<pipelineVars, exceptApi, mcpServer>>

\* spawn(..., { env: process.env }): the analyzer gets the environment of
\* the process as it is when analyzePR() is called.
SpawnEnv(i, env) == env

\* analyzePR(options): throws for a missing option; else spawns the
\* analyzer and returns the promise.
AnalyzePR(i) ==
  /\ analyses[i].st = "provider"
  /\ LET o == analyses[i].options
     IN  IF Falsy(o.owner) \/ Falsy(o.repo) \/ Falsy(o.prNumber)
         THEN analyses' = [analyses EXCEPT
                ![i].st = "thrown",
                ![i].result = [st |-> "rejected", v |-> <<>>]]
         ELSE analyses' = [analyses EXCEPT
                ![i].st = "running",
                ![i].spawned = @ + 1,
                ![i].analyzerPort = SpawnEnv(i, envLlmPort),
                ![i].result = [st |-> "pending", v |-> <<>>]]
  /\ UNCHANGED <<pipelineVars, exceptApi, envLlmPort, mcpServer>>

\* analyzer.stdout.on('data'): output += data.toString()
AnalyzerStdout(i) ==
  /\ analyses[i].st = "running"
  /\ Len(analyses[i].output) < MaxPieces
  /\ \E chunk \in OutputChunks :
       analyses' = [analyses EXCEPT ![i].output = @ \o chunk]
  /\ UNCHANGED <<pipelineVars, exceptApi, envLlmPort, mcpServer>>

\* analyzer.stderr.on('data'): console.error only.
AnalyzerStderr(i) ==
  /\ analyses[i].st = "running"
  /\ ~analyses[i].errLogged
  /\ analyses' = [analyses EXCEPT ![i].errLogged = TRUE]
  /\ UNCHANGED <<pipelineVars, exceptApi, envLlmPort, mcpServer>>

\* Mutant of CloseResult: the output is returned whatever the exit code.
CloseResultAnyCode(code, output) == [st |-> "resolved", v |-> output]

\* analyzer.on('close', (code) => ...): code !== 0 rejects, 0 resolves
\* with the output.
CloseResult(code, output) ==
  IF code # "0" THEN [st |-> "rejected", v |-> <<>>]
  ELSE [st |-> "resolved", v |-> output]

AnalyzerClose(i) ==
  /\ analyses[i].st = "running"
  /\ \E code \in ExitCodes :
       analyses' = [analyses EXCEPT
         ![i].st = "closed",
         ![i].code = code,
         ![i].result = CloseResult(code, analyses[i].output)]
  /\ UNCHANGED <<pipelineVars, exceptApi, envLlmPort, mcpServer>>


\* startMCPGitHubServerProcess has not been called.  The environment of the
\* process: GITHUB_TOKEN and GITHUB_PERSONAL_ACCESS_TOKEN set or not,
\* MCP_GITHUB_PORT (0 when not set).
NoServerStart ==
  [st |-> "none", githubToken |-> FALSE, pat |-> FALSE, envPort |-> 0,
   portBefore |-> 0, spawned |-> 0, childPort |-> 0]

\* options.port of the call (0: not given) and MCP_GITHUB_PORT before it
PortOptions == {0, 9000}
EnvPorts == {0, 7000}

\* Mutant of MissingToken: the server is started without a token.
MissingTokenIgnored(githubToken, pat) == FALSE

\* const token = process.env.GITHUB_TOKEN || process.env.GITHUB_PERSONAL_ACCESS_TOKEN;
\* if (!token)
MissingToken(githubToken, pat) == ~(githubToken \/ pat)

\* startMCPGitHubServerProcess(options): throws without a token; else
\* spawns the server with MCP_SERVER_PORT and sets process.env.MCP_GITHUB_PORT.
StartMCPGitHubServerProcess ==
  /\ mcpServer.st = "none"
  /\ \E option \in PortOptions :
       LET port == IF option = 0 THEN 8080 ELSE option
       IN  mcpServer' =
             IF MissingToken(mcpServer.githubToken, mcpServer.pat)
             THEN [mcpServer EXCEPT !.st = "thrown",
                                    !.portBefore = mcpServer.envPort]
             ELSE [mcpServer EXCEPT !.st = "spawned",
                                    !.portBefore = mcpServer.envPort,
                                    !.spawned = @ + 1,
                                    !.childPort = port,
                                    !.envPort = port]
  /\ UNCHANGED <<pipelineVars, exceptApi, envLlmPort, analyses>>
----------------------------------------------------------------------------
(* The LLM provider as a server: one request to /execute or to /analyze.   *)

\* prompt_instructions of /execute, prompt of /analyze
Instructions == { Undefined, Null, Str(<<>>), Str(<<"i">>) }

\* The bodies a client can post.  A body of /execute may come without args.
ExecuteRequests ==
  { [endpoint |-> "execute", name |-> n, hasArgs |-> TRUE, diff |-> d, instr |-> p] :
      n \in {"analyze_pr_diff", "get_diff_pr"}, d \in ContentValues,
      p \in Instructions }
  \cup
  { [endpoint |-> "execute", name |-> n, hasArgs |-> FALSE, diff |-> Undefined,
     instr |-> Undefined] : n \in {"analyze_pr_diff", "get_diff_pr"} }

AnalyzeRequests ==
  { [endpoint |-> "analyze", name |-> "", hasArgs |-> TRUE, diff |-> d, instr |-> p] :
      d \in ContentValues, p \in Instructions }

Requests == ExecuteRequests \cup AnalyzeRequests

NoReply ==
  [st |-> "none", status |-> 0, payload |-> Undefined, backend |-> 0,
   systemPrompt |-> <<>>, answer |-> "none", text |-> NoVerdict]

\* res.status(...).json(...) before any request to the backend
Refused(status) == [NoReply EXCEPT !.st = "sent", !.status = status]

\* Mutant of SystemPrompt: the instructions of the caller take the place of
\* the default prompt.
SystemPromptReplaced(instr) ==
  IF ~Falsy(instr) THEN MsgAdditionalInstructions \o ToText(instr)
  ELSE MsgDefaultPrompt

\* const systemPrompt = prompt_instructions
\*   ? (defaultPrompt, two newlines, "Additional Instructions: ", them)
\*   : defaultPrompt;
SystemPrompt(instr) ==
  IF ~Falsy(instr)
  THEN MsgDefaultPrompt \o <<NL, NL>> \o MsgAdditionalInstructions \o ToText(instr)
  ELSE MsgDefaultPrompt

\* app.post('/execute') up to the call of openai.chat.completions.create:
\* 400 for another tool name, a TypeError (caught: 500) when args is
\* missing, 400 for a falsy diff.
ExecuteReceive ==
  /\ request.endpoint = "execute"
  /\ reply.st = "none"
  /\ reply' = IF request.name # "analyze_pr_diff" THEN Refused(400)
              ELSE IF ~request.hasArgs THEN Refused(500)
              ELSE IF Falsy(request.diff) THEN Refused(400)
              ELSE [NoReply EXCEPT !.st = "waiting", !.backend = 1,
                                   !.systemPrompt = SystemPrompt(request.instr)]
  /\ UNCHANGED <<pipelineVars, exceptProvider, request>>

\* The completion arrives (or the call throws); the handler answers.
ExecuteBackendReturn ==
  /\ request.endpoint = "execute"
  /\ reply.st = "waiting"
  /\ \E c \in Completions :
       LET res == ExecuteEndpoint(request.name, request.diff, c)
       IN  reply' = [reply EXCEPT !.st = "sent", !.status = res.status,
                                  !.payload = res.content,
                                  !.answer = BackendAnswer(c),
                                  !.text = VerdictOf(c)]
  /\ UNCHANGED <<pipelineVars, exceptProvider, request>>

\* app.post('/analyze') up to the call of openai.chat.completions.create:
\* 400 for a falsy diff or prompt; the system prompt is the caller's.
AnalyzeReceive ==
  /\ request.endpoint = "analyze"
  /\ reply.st = "none"
  /\ reply' = IF Falsy(request.diff) \/ Falsy(request.instr) THEN Refused(400)
              ELSE [NoReply EXCEPT !.st = "waiting", !.backend = 1,
                                   !.systemPrompt = ToText(request.instr)]
  /\ UNCHANGED <<pipelineVars, exceptProvider, request>>

AnalyzeBackendReturn ==
  /\ request.endpoint = "analyze"
  /\ reply.st = "waiting"
  /\ \E c \in Completions :
       LET res == AnalyzeEndpoint(request.diff, request.instr, c)
       IN  reply' = [reply EXCEPT !.st = "sent", !.status = res.status,
                                  !.payload = res.response,
                                  !.answer = BackendAnswer(c),
                                  !.text = VerdictOf(c)]
  /\ UNCHANGED <<pipelineVars, exceptProvider, request>>

----------------------------------------------------------------------------
(* executeMCPCommandStdio as a function: the caller only awaits the        *)
(* promise, and the callbacks of the call keep running after it settles.   *)
(* It has two versions: lib/analyze-pr.js and the earlier                  *)
(* .github/scripts/analyze-pr.js with a 30 s timer.                        *)

Versions == {"lib", "old"}

NoCall ==
  [version |-> "none",
   token   |-> FALSE,    \* const token (line 14) is truthy
   limit   |-> 0,        \* tokens the subprocess writes at most
   written |-> 0,        \* commands written to the subprocess's stdin
   code    |-> "none"]

\* The earlier stdout handler: the text from the last opening brace to the
\* last closing brace; a content field resolves, an error field is not
\* looked at.  Without a closing brace after the last opening brace the
\* substring holds no complete object, and nothing is resolved.
ScanResponseOld(rd) ==
  LET jsonStart == LastIndexOf(rd, "{")
      jsonEnd   == LastIndexOf(rd, "}")
      parsed    == IF jsonStart # 0 /\ jsonEnd > jsonStart
                   THEN JsonParse(SubSeq(rd, jsonStart, jsonEnd))
                   ELSE JsonParse(<<>>)
  IN  IF parsed.valid /\ parsed.content.t # "undefined"
      THEN [act |-> "resolve", v |-> parsed.content, error |-> parsed.error]
      ELSE [act |-> "wait", v |-> Undefined, error |-> Undefined]

ScanOf(version, rd) ==
  IF version = "lib" THEN ScanResponse(rd) ELSE ScanResponseOld(rd)

\* clearTimeout(timeoutId)
ClearTimeout(t) == IF t = "active" THEN "cleared" ELSE t

\* Mutant of RejectsOnClose: a close with exit code 0 is no failure.
RejectsOnCloseNonZero(complete, code) == ~complete /\ code # "0"

\* mcpServer.on('close', (code) => { if (!responseComplete) ... reject })
RejectsOnClose(complete, code) == ~complete

\* new Promise((resolve, reject) => { ... }): the token check (lib only),
\* spawn, the handlers, the command written to stdin, the timer.
StdioExecutor ==
  /\ stdioCall.version \in Versions
  /\ promise.st = "none"
  /\ IF stdioCall.version = "lib" /\ ~stdioCall.token
     THEN /\ promise' = Rejected("MissingToken")
          /\ UNCHANGED <<child, timer, stdioCall>>
     ELSE /\ child' = "alive"
          /\ promise' = Pending
          /\ stdioCall' = [stdioCall EXCEPT !.written = @ + 1]
          /\ timer' = "active"
  /\ UNCHANGED <<responseData, errorData, responseComplete,
                 analyzerVars, workflowVars, surfaceVars, exceptCall>>

\* mcpServer.stdout.on('data'); output written before a kill can still
\* arrive after it.
StdioStdout ==
  /\ stdioCall.version \in Versions
  /\ child \in {"alive", "killed"}
  /\ Len(responseData) < stdioCall.limit
  /\ \E chunk \in TokenSeqs(stdioCall.limit - Len(responseData)) \ { <<>> } :
       LET rd   == responseData \o chunk
           scan == ScanOf(stdioCall.version, rd)
       IN  /\ responseData' = rd
           /\ CASE scan.act = "resolve" ->
                     /\ responseComplete' = TRUE
                     /\ promise' = SettleWith(promise, Resolved(scan.v))
                     /\ IF stdioCall.version = "lib"
                        THEN timer' = ClearTimeout(timer) /\ UNCHANGED child
                        ELSE child' = KillIfAlive(child) /\ UNCHANGED timer
                [] scan.act = "reject" ->
                     /\ responseComplete' = TRUE
                     /\ promise' = SettleWith(promise, Rejected("ProviderError"))
                     /\ timer' = ClearTimeout(timer)
                     /\ UNCHANGED child
                [] scan.act = "wait" ->
                     UNCHANGED <<responseComplete, promise, timer, child>>
  /\ UNCHANGED <<errorData, stdioCall, analyzerVars, workflowVars,
                 surfaceVars, exceptCall>>

\* mcpServer.stderr.on('data')
StdioStderr ==
  /\ stdioCall.version \in Versions
  /\ child \in {"alive", "killed"}
  /\ ~errorData
  /\ errorData' = TRUE
  /\ UNCHANGED <<child, promise, responseData, responseComplete, timer,
                 stdioCall, analyzerVars, workflowVars, surfaceVars, exceptCall>>

\* mcpServer.on('error'): the subprocess could not be spawned.
StdioSpawnError ==
  /\ stdioCall.version \in Versions
  /\ child = "alive"
  /\ responseData = <<>>
  /\ ~errorData
  /\ child' = "failed"
  /\ promise' = SettleWith(promise, Rejected("ProviderUnavailable"))
  /\ UNCHANGED <<responseData, errorData, responseComplete, timer,
                 stdioCall, analyzerVars, workflowVars, surfaceVars, exceptCall>>

\* mcpServer.on('close'): lib clears the timer and rejects when no
\* complete response was parsed; the earlier version rejects in that case
\* and clears the timer in a second close listener.
StdioClose ==
  /\ stdioCall.version \in Versions
  /\ child \in {"alive", "killed", "failed"}
  /\ \E code \in ExitCodes :
       /\ stdioCall' = [stdioCall EXCEPT !.code = code]
       /\ child' = "closed"
       /\ IF RejectsOnClose(responseComplete, code)
          THEN /\ promise' = SettleWith(promise, Rejected("ProviderUnavailable"))
               /\ timer' = ClearTimeout(timer)
          ELSE /\ UNCHANGED promise
               /\ timer' = IF stdioCall.version = "old" THEN ClearTimeout(timer)
                           ELSE timer
  /\ UNCHANGED <<responseData, errorData, responseComplete,
                 analyzerVars, workflowVars, surfaceVars, exceptCall>>

\* The timer fires (60 s, 30 s in the earlier version).
StdioTimeout ==
  /\ stdioCall.version \in Versions
  /\ timer = "active"
  /\ timer' = "fired"
  /\ IF ~responseComplete
     THEN /\ child' = KillIfAlive(child)
          /\ promise' = SettleWith(promise, Rejected("ProviderUnavailable"))
     ELSE UNCHANGED <<child, promise>>
  /\ UNCHANGED <<responseData, errorData, responseComplete, stdioCall,
                 analyzerVars, workflowVars, surfaceVars, exceptCall>>

----------------------------------------------------------------------------
(* bin/cli.js: the analyze command.                                        *)

NoCli ==
  [pc |-> "none", key |-> FALSE, token |-> FALSE, llmPort |-> 0,
   warned |-> FALSE, llmProvider |-> "none", providerLog |-> 0,
   analyzer |-> "none", requestAt |-> "none", code |-> "none",
   failedMsg |-> FALSE, success |-> FALSE, status |-> "none"]

\* The command line and the environment: OPENROUTER_API_KEY and the GitHub
\* token present or not, --llm-port given (8095) or not (0).
CliInputs ==
  { [NoCli EXCEPT !.pc = "start", !.key = k, !.token = t, !.llmPort = p] :
      k \in BOOLEAN, t \in BOOLEAN, p \in {0, 8095} }

\* process.exit(code): the status of the process; null gives status 0.
ProcessExit(code) == IF code = "null" THEN "0" ELSE code

\* llmProvider.kill(): a signal for the subprocess if it still runs
LlmProviderKill(s) == IF s \in {"starting", "listening"} THEN "killed" ELSE s

\* The action up to the wait: the API key check, the token warning, the
\* LLM provider spawned.
CliStart ==
  /\ cli.pc = "start"
  /\ cli' = IF ~cli.key
            THEN [cli EXCEPT !.pc = "exited", !.status = "1"]
            ELSE [cli EXCEPT !.pc = "waiting", !.warned = ~cli.token,
                             !.llmProvider = "starting"]
  /\ UNCHANGED <<pipelineVars, exceptCli>>

\* The provider's app.listen callback: it accepts connections from now on.
ProviderListens ==
  /\ cli.llmProvider = "starting"
  /\ cli' = [cli EXCEPT !.llmProvider = "listening"]
  /\ UNCHANGED <<pipelineVars, exceptCli>>

\* The provider ends on its own before it listens (its port is taken).
ProviderFails ==
  /\ cli.llmProvider = "starting"
  /\ cli' = [cli EXCEPT !.llmProvider = "exited"]
  /\ UNCHANGED <<pipelineVars, exceptCli>>

\* llmProvider.stdout / stderr .on('data'): the text is printed.
ProviderOutput ==
  /\ cli.llmProvider \in {"starting", "listening"}
  /\ cli.pc \in {"waiting", "analyzing"}
  /\ cli.providerLog < MaxProviderLog
  /\ cli' = [cli EXCEPT !.providerLog = @ + 1]
  /\ UNCHANGED <<pipelineVars, exceptCli>>

\* The 2000 ms of setTimeout have passed: the analyzer is spawned.
CliSpawnAnalyzer ==
  /\ cli.pc = "waiting"
  /\ cli' = [cli EXCEPT !.pc = "analyzing", !.analyzer = "running"]
  /\ UNCHANGED <<pipelineVars, exceptCli>>

\* The analyzer sends its analysis request to the provider's port.
AnalyzerRequest ==
  /\ cli.analyzer = "running"
  /\ cli' = [cli EXCEPT !.analyzer = "requested",
                        !.requestAt = cli.llmProvider]
  /\ UNCHANGED <<pipelineVars, exceptCli>>

\* analyzer.on('close'): the provider is killed; a code other than 0 is
\* printed and handed to process.exit, 0 prints the success message.  (An
\* analyzer whose request found no listening provider does not end with 0.)
AnalyzerCloseCli ==
  /\ cli.analyzer \in {"running", "requested"}
  /\ \E code \in ExitCodes :
       /\ code = "0" => cli.requestAt = "listening"
       /\ cli' = IF code # "0"
                 THEN [cli EXCEPT !.analyzer = "closed", !.code = code,
                                  !.llmProvider = LlmProviderKill(@),
                                  !.failedMsg = TRUE,
                                  !.status = ProcessExit(code),
                                  !.pc = "exited"]
                 ELSE [cli EXCEPT !.analyzer = "closed", !.code = code,
                                  !.llmProvider = LlmProviderKill(@),
                                  !.success = TRUE,
                                  !.pc = "closed"]
  /\ UNCHANGED <<pipelineVars, exceptCli>>

\* Nothing keeps the event loop alive: the process ends with status 0.
CliEnds ==
  /\ cli.pc = "closed"
  /\ cli' = [cli EXCEPT !.pc = "exited", !.status = "0"]
  /\ UNCHANGED <<pipelineVars, exceptCli>>

----------------------------------------------------------------------------
(* The parts of the state a specification does not use.                    *)

\* No process uses index.js.
ApiIdle ==
  /\ envLlmPort = 0
  /\ mcpServer = NoServerStart
  /\ analyses = [i \in Analyses |-> NewAnalysis([owner |-> Given, repo |-> Given,
                                                 prNumber |-> Given])]

\* The LLM provider has no request of its own.
ProviderIdle ==
  /\ request = [endpoint |-> "none", name |-> "", hasArgs |-> FALSE,
                diff |-> Undefined, instr |-> Undefined]
  /\ reply = NoReply

\* executeMCPCommandStdio is called by main() only.
CallIdle == stdioCall = NoCall

\* The command line program does not run.
CliIdle == cli = NoCli

HostIdle == ApiIdle /\ ProviderIdle /\ CallIdle /\ CliIdle

\* main() of the analyzer has not started.
AnalyzerIdle ==
  /\ variant = "lib"
  /\ argv = [owner |-> <<"o">>, repo |-> <<"r">>, num |-> <<"7">>]
  /\ apc = "start"
  /\ out = <<>>
  /\ exitCode = NoCode
  /\ failure = "none"
  /\ prDiff = Undefined
  /\ probeAnswer = "none"
  /\ diffAnswer = "none"
  /\ completion = "none"
  /\ verdict = NoVerdict
  /\ probes = 0
  /\ diffRequests = 0
  /\ llmRequests = 0
  /\ backendRequests = 0

\* executeMCPCommandStdio has not been called.
StdioIdle ==
  /\ child = "none"
  /\ promise = NoPromise
  /\ responseData = <<>>
  /\ errorData = FALSE
  /\ responseComplete = FALSE
  /\ timer = "none"

\* The workflow job has not started, on a PR without comments.
WorkflowIdle ==
  /\ wpc = "analyze"
  /\ pr_decision = "unset"
  /\ pr_comment = <<>>
  /\ calls = <<>>
  /\ jobStatus = "running"
  /\ finished = <<>>
  /\ comments = <<>>

\* No run of the pipeline is under way.
PipelineIdle == AnalyzerIdle /\ StdioIdle /\ WorkflowIdle

----------------------------------------------------------------------------
(* A run of the workflow job.                                              *)

Init ==
  /\ variant \in {"script", "http", "lib"}
  /\ argv \in Argvs
  /\ apc = "start"
  /\ out = <<>>
  /\ exitCode = NoCode
  /\ failure = "none"
  /\ prDiff = Undefined
  /\ probeAnswer = "none"
  /\ diffAnswer = "none"
  /\ completion = "none"
  /\ verdict = NoVerdict
  /\ probes = 0
  /\ diffRequests = 0
  /\ llmRequests = 0
  /\ backendRequests = 0
  /\ child = "none"
  /\ promise = NoPromise
  /\ responseData = <<>>
  /\ errorData = FALSE
  /\ responseComplete = FALSE
  /\ timer = "none"
  /\ wpc = "analyze"
  /\ pr_decision = "unset"
  /\ pr_comment = <<>>
  /\ calls = <<>>
  /\ jobStatus = "running"
  /\ finished = <<>>
  /\ comments = <<>>
  /\ HostIdle

Next ==
  \/ ScriptStart
  \/ ScriptProbeReturn
  \/ ScriptFetchReturn
  \/ ScriptLlmReturn
  \/ HttpStart
  \/ HttpProbeReturn
  \/ HttpFetchReturn
  \/ HttpLlmReturn
  \/ LibStart
  \/ LibStdoutData
  \/ LibStderrData
  \/ LibSpawnError
  \/ LibClose
  \/ LibTimeout
  \/ LibLlmReturn
  \/ LibExit
  \/ AnalyzeStepAbort
  \/ AnalyzeStepOutputs
  \/ ProcessStart
  \/ CommentReturn
  \/ ReviewReturn
  \/ MergeReturn
  \/ LabelReturn

Spec == Init /\ [][Next]_vars

----------------------------------------------------------------------------
(* The decision interpreter on its own: the analyzer has returned with     *)
(* status 0 and any text of Texts on its standard output.                  *)

InitInterp ==
  /\ variant = "script"
  /\ argv = [owner |-> <<"o">>, repo |-> <<"r">>, num |-> <<"7">>]
  /\ apc = "exited"
  /\ out \in Texts
  /\ exitCode = 0
  /\ failure = "none"
  /\ prDiff = Undefined
  /\ probeAnswer = "none"
  /\ diffAnswer = "none"
  /\ completion = "none"
  /\ verdict = out
  /\ probes = 0
  /\ diffRequests = 0
  /\ llmRequests = 0
  /\ backendRequests = 0
  /\ child = "none"
  /\ promise = NoPromise
  /\ responseData = <<>>
  /\ errorData = FALSE
  /\ responseComplete = FALSE
  /\ timer = "none"
  /\ wpc = "analyze"
  /\ pr_decision = "unset"
  /\ pr_comment = <<>>
  /\ calls = <<>>
  /\ jobStatus = "running"
  /\ finished = <<>>
  /\ comments = <<>>
  /\ HostIdle

NextInterp ==
  \/ AnalyzeStepOutputs
  \/ ProcessStart
  \/ CommentReturn
  \/ ReviewReturn
  \/ MergeReturn
  \/ LabelReturn

SpecInterp == InitInterp /\ [][NextInterp]_vars

----------------------------------------------------------------------------
(* Properties of the decision interpreter.                                 *)

Ops(cs) == [i \in 1..Len(cs) |-> cs[i].op]

IsPrefix(s, t) == Len(s) <= Len(t) /\ s = SubSeq(t, 1, Len(s))

\* The text has "APPROVE" at position i, wholly before its first newline.
ApproveOnFirstLineAt(text, i) ==
  /\ i + Len(Approve) - 1 <= Len(text)
  /\ SubSeq(text, i, i + Len(Approve) - 1) = Approve
  /\ \A j \in 1..(i + Len(Approve) - 1) : text[j] # NL

\* C1: for every raw verdict text, the decision is APPROVE if and only if
\* the first line of the text (everything before the first newline, or the
\* whole text without one) contains the case-sensitive substring "APPROVE";
\* in every other case the decision is REJECT.
C1_DecisionIffApproveOnFirstLine ==
  pr_decision # "unset" =>
    /\ pr_decision \in {"approve", "reject"}
    /\ pr_decision = "approve" <=>
         \E i \in 1..Len(verdict) : ApproveOnFirstLineAt(verdict, i)

\* C1 witness: an approval by a first line that does not start with
\* "APPROVE" (the match is not anchored).
C1_Witness ==
  /\ pr_decision = "approve"
  /\ Len(verdict) > Len(Approve)
  /\ SubSeq(verdict, 1, Len(Approve)) # Approve

\* C2: on an APPROVE decision the PR-surface calls are issued in the order
\* comment, approval review, squash merge; the review is issued only after
\* the comment call has succeeded, the merge only after the review call has
\* succeeded, and the order is the same whether the merge succeeds or not.
C2_ApproveOrder ==
  pr_decision = "approve" =>
    /\ IsPrefix(Ops(calls), <<"comment", "review", "merge">>)
    /\ \A i \in 1..Len(calls) : i < Len(calls) => calls[i].st = "ok"
    /\ Len(calls) >= 2 => calls[2].arg = "APPROVE"
    /\ Len(calls) >= 3 => calls[3].arg = "squash"
    /\ jobStatus = "success" => Len(calls) = 3

\* C2 witness: the three calls were made and the merge attempt failed.
C2_Witness ==
  /\ pr_decision = "approve"
  /\ Ops(calls) = <<"comment", "review", "merge">>
  /\ calls[3].st = "fail"

\* C3: on a REJECT decision the PR-surface calls are exactly comment, then
\* the attempt to add the label "needs-review", whether the label attempt
\* succeeds or fails; no review and no merge is made in such a run.
C3_RejectOrder ==
  pr_decision = "reject" =>
    /\ IsPrefix(Ops(calls), <<"comment", "label">>)
    /\ Len(calls) >= 2 => calls[1].st = "ok" /\ calls[2].arg = "needs-review"
    /\ jobStatus = "success" => Len(calls) = 2

\* C3 witness: comment and label were made and the label attempt failed.
C3_Witness ==
  /\ pr_decision = "reject"
  /\ Ops(calls) = <<"comment", "label">>
  /\ calls[2].st = "fail"

\* C4: if posting the comment fails the run aborts: no review, merge or
\* label call is made afterwards and the run reports overall failure.
C4_CommentFailureAborts ==
  (Len(calls) >= 1 /\ calls[1].st = "fail") =>
    /\ Len(calls) = 1
    /\ wpc = "done"
    /\ jobStatus = "failure"

\* C4 witness: the comment call has failed.
C4_Witness ==
  /\ Len(calls) >= 1
  /\ calls[1].op = "comment"
  /\ calls[1].st = "fail"

\* C5: if the merge attempt fails after the comment and the approval review
\* succeeded, the run still reports overall success and no further
\* PR-surface call is made: the comment and the approval stay in place.
C5_MergeFailureRecovered ==
  (Len(calls) >= 3 /\ calls[3].op = "merge" /\ calls[3].st = "fail") =>
    /\ jobStatus = "success"
    /\ wpc = "done"
    /\ Len(calls) = 3
    /\ calls[1].op = "comment" /\ calls[1].st = "ok"
    /\ calls[2].op = "review" /\ calls[2].st = "ok"

\* C5 witness: a failed merge attempt after a successful comment and review.
C5_Witness ==
  /\ Len(calls) = 3
  /\ calls[3].op = "merge"
  /\ calls[3].st = "fail"
  /\ calls[2].st = "ok"

\* C6: if the label attempt fails after the comment succeeded on the REJECT
\* path, the failure is caught: the run reports overall success and no
\* further PR-surface call is made.
C6_LabelFailureRecovered ==
  (Len(calls) >= 2 /\ calls[2].op = "label" /\ calls[2].st = "fail") =>
    /\ jobStatus = "success"
    /\ wpc = "done"
    /\ Len(calls) = 2
    /\ calls[1].op = "comment" /\ calls[1].st = "ok"

\* C6 witness: a failed label attempt after a successful comment.
C6_Witness ==
  /\ Len(calls) = 2
  /\ calls[2].op = "label"
  /\ calls[2].st = "fail"
  /\ pr_decision = "reject"

----------------------------------------------------------------------------
(* Properties of a whole run.                                              *)

\* C7: in every successful run in which the model backend returned verdict
\* text V, the decision that selects the approve path or the label path is
\* the one the first-line rule gives for V itself; no progress or log line
\* written before the verdict takes part in the decision.
C7_DecisionFromVerdictOnly ==
  (jobStatus = "success" /\ verdict # NoVerdict) =>
    (pr_decision = "approve" <=>
       \E i \in 1..Len(verdict) : ApproveOnFirstLineAt(verdict, i))

EmptyDiffAnswers == {"empty", "null", "missing"}

\* C8: given an empty diff (the provider answers successfully but the
\* content is the empty string, null or missing), the pipeline fails, no
\* request is sent to the model backend, and no PR-surface write is made.
C8_EmptyDiffFails ==
  diffAnswer \in EmptyDiffAnswers =>
    /\ apc = "exited" /\ exitCode = 1 /\ failure # "none"
    /\ llmRequests = 0 /\ backendRequests = 0
    /\ calls = <<>>
    /\ pr_decision = "unset"
    /\ jobStatus # "success"
    /\ wpc = "done" => jobStatus = "failure"

\* C8 witness: the stdio version got "content": "" and the job has failed.
C8_Witness ==
  /\ variant = "lib"
  /\ diffAnswer = "empty"
  /\ wpc = "done"
  /\ jobStatus = "failure"

\* C9: given a backend response that lacks the content field, the pipeline
\* fails (non-zero completion, no verdict printed) and makes no PR-surface
\* write; the missing content never becomes a verdict value that drives a
\* decision.
C9_MissingContentFails ==
  completion \in {"nochoices", "nomessage", "nocontent", "nullcontent"} =>
    /\ apc = "exited" /\ exitCode = 1
    /\ pr_decision = "unset"
    /\ calls = <<>>
    /\ jobStatus # "success"

FetchStageFailures ==
  {"InvalidReference", "ProviderUnavailable", "EmptyDiff", "ProviderError"}

----------------------------------------------------------------------------
(* Order and number of the external calls of a run.                        *)

\* The external calls of the run that have been issued and have not
\* returned: the probe, the diff request, the analysis request and the
\* PR-surface calls.
ProbeInFlight == variant \in {"script", "http"} /\ apc = "probe"

DiffInFlight ==
  \/ variant \in {"script", "http"} /\ apc = "fetch"
  \/ variant = "lib" /\ promise.st = "pending"

LlmInFlight == apc = "llm"

PendingCalls == { i \in 1..Len(calls) : calls[i].st = "pending" }

InFlight ==
  (IF ProbeInFlight THEN 1 ELSE 0) + (IF DiffInFlight THEN 1 ELSE 0)
    + (IF LlmInFlight THEN 1 ELSE 0) + Cardinality(PendingCalls)

\* C11: a run is strictly sequential: the request to the model backend is
\* issued only after the diff fetch of the same run has completed with a
\* non-empty diff, the first PR-surface write only after the model request
\* of the same run has returned a verdict, and no two external calls of the
\* run are in flight at the same time.
C11_StrictlySequential ==
  /\ llmRequests > 0 =>
       /\ ~DiffInFlight /\ ~ProbeInFlight
       /\ prDiff.t = "str" /\ prDiff.v # <<>>
  /\ calls # <<>> =>
       /\ apc = "exited" /\ ~LlmInFlight
       /\ llmRequests = 1
       /\ verdict # NoVerdict
  /\ InFlight <= 1

\* A PR number as the specification wants it: digits only, greater than 0.
IsPositiveInteger(s) ==
  /\ s # <<>>
  /\ \A i \in 1..Len(s) : IsDigit(s[i])
  /\ DigitsValue(s) > 0

MalformedInput(a) ==
  a.owner = <<>> \/ a.repo = <<>> \/ ~IsPositiveInteger(a.num)

\* C12: malformed input (owner empty, repo empty, or PR number missing,
\* non-numeric, zero or negative) makes the run fail before any network
\* activity: no availability probe, no diff request, no subprocess spawn
\* and no model request is made for such input.
C12_MalformedInputFailsFast ==
  MalformedInput(argv) =>
    /\ probes = 0 /\ diffRequests = 0 /\ llmRequests = 0
    /\ child = "none"
    /\ apc # "start" => apc = "exited" /\ exitCode = 1
                        /\ failure = "InvalidReference"

\* C13: when the availability probe of the diff provider fails (transport
\* error or non-success status), the diff fetch request is never issued in
\* that run, the probe is not repeated, and the run fails.
C13_FailedProbeStopsRun ==
  probeAnswer \in {"notok", "neterr"} =>
    /\ diffRequests = 0
    /\ probes = 1
    /\ apc = "exited" /\ exitCode = 1 /\ failure = "ProviderUnavailable"
    /\ llmRequests = 0
    /\ calls = <<>>
    /\ jobStatus # "success"
    /\ wpc = "done" => jobStatus = "failure"

\* C13 witness: the probe inside fetchPRDiffFromMCP() got no connection and
\* the job has failed.
C13_Witness ==
  /\ variant = "http"
  /\ probeAnswer = "neterr"
  /\ probes = 1
  /\ wpc = "done"
  /\ jobStatus = "failure"

CallsOf(op) == { i \in 1..Len(calls) : calls[i].op = op }

\* C14: attempt-once: in any single run each external call is issued at
\* most once (the probe, the diff request, the request to the LLM provider
\* and to the model backend, and each of comment, review, merge and
\* label), whatever the outcome of any call.
C14_AttemptOnce ==
  /\ probes <= 1
  /\ diffRequests <= 1
  /\ llmRequests <= 1
  /\ backendRequests <= 1
  /\ \A op \in {"comment", "review", "merge", "label"} :
       Cardinality(CallsOf(op)) <= 1

\* C14 witness: a run that made each request once and whose label call
\* failed has ended without another attempt.
C14_Witness ==
  /\ diffRequests = 1
  /\ backendRequests = 1
  /\ Len(calls) = 2
  /\ calls[2].op = "label"
  /\ calls[2].st = "fail"
  /\ wpc = "done"

----------------------------------------------------------------------------
(* The diff over stdio: the wait bound and the provider's error payload.   *)

\* C15: if the wait bound on diff acquisition elapses before a complete
\* response has been received, the diff acquisition ends as a failure: the
\* promise is rejected, the provider subprocess is killed if it is still
\* alive, no model request is made, and the run fails; a timeout never
\* results in a successfully returned diff.
C15_TimeoutFails ==
  timer = "fired" =>
    /\ ~responseComplete
    /\ promise.st = "rejected"
    /\ child # "alive"
    /\ prDiff = Undefined
    /\ llmRequests = 0 /\ backendRequests = 0
    /\ apc = "exited" /\ exitCode = 1 /\ failure = "ProviderUnavailable"
    /\ calls = <<>>
    /\ jobStatus # "success"
    /\ wpc = "done" => jobStatus = "failure"

\* C15 witness: the bound elapsed on a subprocess that had written only a
\* part of its answer; it was killed and the job has failed.
C15_Witness ==
  /\ timer = "fired"
  /\ responseData # <<>>
  /\ child = "killed"
  /\ wpc = "done"
  /\ jobStatus = "failure"

\* C17: when the diff provider answers with a structured error payload (an
\* object with an error field), the diff fetch fails with the provider's
\* error (the failure ProviderError, whose message is built from the error
\* and message fields of the payload); such a payload is never treated as
\* a successful diff and no analysis is requested for it.
C17_ErrorPayloadFails ==
  diffAnswer = "error" =>
    /\ prDiff = Undefined
    /\ llmRequests = 0
    /\ apc = "exited" /\ exitCode = 1
    /\ failure = "ProviderError"

\* The error payloads that lib/analyze-pr.js takes for a diff: the object
\* has a content field next to the error field.
C17_ErrorTakenForDiff ==
  /\ variant = "lib"
  /\ diffAnswer = "error"
  /\ promise.st = "resolved"
  /\ llmRequests = 1

----------------------------------------------------------------------------
(* The decision-specific action and the comments of repeated runs.         *)

\* C18: each run takes exactly one transition out of Pending: in no run
\* are both an approval (review or merge) and a label call made, the calls
\* made are those of the run's decision, and the merge attempt or the label
\* attempt is the last PR-surface call of its run: once it has returned the
\* job has ended.
C18_OneTerminalAction ==
  /\ ~(/\ CallsOf("review") \cup CallsOf("merge") # {}
       /\ CallsOf("label") # {})
  /\ CallsOf("review") \cup CallsOf("merge") # {} => pr_decision = "approve"
  /\ CallsOf("label") # {} => pr_decision = "reject"
  /\ \A i \in 1..Len(calls) :
       calls[i].op \in {"merge", "label"} =>
         /\ i = Len(calls)
         /\ calls[i].st # "pending" => wpc = "done"

\* C18 witness: the merge attempt of an approving run has failed and the
\* run has ended with the three calls of the approval path only.
C18_Witness ==
  /\ pr_decision = "approve"
  /\ wpc = "done"
  /\ Ops(calls) = <<"comment", "review", "merge">>
  /\ calls[3].st = "fail"
  /\ jobStatus = "success"

\* C20: the comment posted on the PR contains the complete verdict text
\* returned by the model backend, unmodified (nothing of it dropped,
\* truncated or rewritten), on the APPROVE and on the REJECT path.
C20_CommentHoldsVerdict ==
  \A i \in CallsOf("comment") : GlobContains(calls[i].body, verdict)

\* A verdict with a backslash followed by n was posted with a line break
\* in its place.
C20_Rewritten ==
  /\ calls # <<>>
  /\ calls[1].st = "ok"
  /\ GlobContains(verdict, <<BSlash, "n">>)
  /\ ~GlobContains(calls[1].body, <<BSlash>>)
----------------------------------------------------------------------------
(* The approval path of the workflow.                                      *)

\* C25: a merge call is made only after the comment call and the review
\* call of the same run have succeeded; when the review call has failed no
\* merge call is made, the job fails and the comment stays on the PR.
C25_MergeOnlyAfterReview ==
  /\ \A i \in CallsOf("merge") :
       /\ \E j \in CallsOf("comment") : j < i /\ calls[j].st = "ok"
       /\ \E j \in CallsOf("review") : j < i /\ calls[j].st = "ok"
  /\ \A j \in CallsOf("review") :
       calls[j].st = "fail" =>
         /\ CallsOf("merge") = {}
         /\ wpc = "done"
         /\ jobStatus = "failure"
         /\ Len(comments) = 1

\* C25 witness: the comment is posted, the review call has failed, and the
\* run has ended in failure without a merge call.
C25_Witness ==
  /\ Ops(calls) = <<"comment", "review">>
  /\ calls[1].st = "ok"
  /\ calls[2].st = "fail"
  /\ wpc = "done"
  /\ jobStatus = "failure"
  /\ Len(comments) = 1
----------------------------------------------------------------------------
(* Termination of a run.                                                   *)

\* What the scheduling of the run guarantees: main() and the steps of the
\* job go on when they can, a timer that is set fires, the process ends
\* once its event loop is empty, and every HTTP call and every PR-surface
\* call returns.  Nothing is promised about the subprocess: it may never
\* write (LibStdoutData, LibStderrData), never fail to spawn
\* (LibSpawnError) and never exit (LibClose).
Scheduled ==
  \/ ScriptStart
  \/ ScriptProbeReturn
  \/ ScriptFetchReturn
  \/ ScriptLlmReturn
  \/ HttpStart
  \/ HttpProbeReturn
  \/ HttpFetchReturn
  \/ HttpLlmReturn
  \/ LibStart
  \/ LibTimeout
  \/ LibLlmReturn
  \/ LibExit
  \/ AnalyzeStepAbort
  \/ AnalyzeStepOutputs
  \/ ProcessStart
  \/ CommentReturn
  \/ ReviewReturn
  \/ MergeReturn
  \/ LabelReturn

\* No step of a run can be taken twice, so a behaviour ends by staying in
\* one state for ever; fairness then says that none of the scheduled steps
\* is possible in that state.
Fairness == WF_vars(Scheduled)

SpecLive == Init /\ [][Next]_vars /\ Fairness

\* C16: every started run eventually reaches a final outcome (the job ends
\* as a success or as a failure), provided every HTTP call and every
\* PR-surface call returns; and the diff-acquisition step always settles,
\* even when the subprocess never writes and never exits.
C16_RunReachesOutcome ==
  /\ <>(jobStatus # "running")
  /\ DiffInFlight ~> ~DiffInFlight

\* The part of C16 that the wait bound gives: a diff acquisition that has
\* started settles.
C16_DiffAcquisitionSettles == DiffInFlight ~> ~DiffInFlight

\* The analyzer's main() has returned with a result and the process cannot
\* end, because the subprocess that answered is still running.
C16_Stuck ==
  /\ variant = "lib"
  /\ apc = "returned"
  /\ child = "alive"
  /\ timer = "cleared"
----------------------------------------------------------------------------
(* Repeated runs of the job for one pull request.                          *)

\* on: pull_request: types: [opened, reopened, synchronize]: an event on
\* the PR starts the job again, on a fresh runner: nothing of the ended run
\* is kept but what it wrote on the PR.  The analyzer of the new run is
\* given the same arguments and, the diff and the verdict being the same,
\* ends with the same output.
NewRun ==
  /\ wpc = "done"
  /\ Len(finished) + 1 < MaxRuns
  /\ finished' = Append(finished, [status |-> jobStatus, calls |-> calls])
  /\ wpc' = "analyze"
  /\ pr_decision' = "unset"
  /\ pr_comment' = <<>>
  /\ calls' = <<>>
  /\ jobStatus' = "running"
  /\ UNCHANGED <<hostVars, analyzerVars, stdioVars, comments>>

NextRuns ==
  \/ AnalyzeStepOutputs
  \/ ProcessStart
  \/ CommentReturn
  \/ ReviewReturn
  \/ MergeReturn
  \/ LabelReturn
  \/ NewRun

SpecRuns == InitInterp /\ [][NextRuns]_vars

\* The comment call of a run has succeeded (it is the first call of a run).
Posted(cs) == cs # <<>> /\ cs[1].st = "ok"

\* How the calls of a run came back, in order.
Outcomes(cs) == [i \in 1..Len(cs) |-> cs[i].st]

PostedRuns == { i \in 1..Len(finished) : Posted(finished[i].calls) }

\* C19: no memory across runs.  Every run whose comment call succeeds adds
\* one comment to the PR, whatever is on it already: after n successful
\* runs there are n comments, all with the same body; and the calls of a
\* run are those of any earlier run whose calls came back the same way.
C19_NoMemoryAcrossRuns ==
  /\ Len(comments) = Cardinality(PostedRuns) + (IF Posted(calls) THEN 1 ELSE 0)
  /\ \A i \in 1..Len(finished) :
       finished[i].status = "success" => i \in PostedRuns
  /\ (/\ wpc = "done" /\ jobStatus = "success"
      /\ \A i \in 1..Len(finished) : finished[i].status = "success") =>
       Len(comments) = Len(finished) + 1
  /\ \A i, j \in 1..Len(comments) : comments[i] = comments[j]
  /\ \A i, j \in 1..Len(finished) :
       Outcomes(finished[i].calls) = Outcomes(finished[j].calls) =>
         finished[i] = finished[j]
  /\ \A i \in 1..Len(finished) :
       \A k \in 1..Len(calls) :
         (/\ k <= Len(finished[i].calls)
          /\ \A m \in 1..(k - 1) : calls[m].st = finished[i].calls[m].st) =>
           /\ calls[k].op = finished[i].calls[k].op
           /\ calls[k].arg = finished[i].calls[k].arg
           /\ calls[k].body = finished[i].calls[k].body

\* C19 witness: the second successful run for the PR has ended; the PR
\* holds two comments with the same body.
C19_Witness ==
  /\ Len(finished) = 1
  /\ finished[1].status = "success"
  /\ wpc = "done"
  /\ jobStatus = "success"
  /\ Len(comments) = 2
  /\ comments[1] = comments[2]
----------------------------------------------------------------------------
(* A process that runs several analyses at a time through index.js.        *)

InitApi ==
  /\ PipelineIdle
  /\ ProviderIdle
  /\ CallIdle
  /\ CliIdle
  /\ envLlmPort = 0
  /\ mcpServer = NoServerStart
  /\ analyses \in [Analyses -> { NewAnalysis(o) : o \in AnalyzeOptions }]

NextApi ==
  \/ \E i \in Analyses : StartLLMProvider(i)
  \/ \E i \in Analyses : AnalyzePR(i)
  \/ \E i \in Analyses : AnalyzerStdout(i)
  \/ \E i \in Analyses : AnalyzerStderr(i)
  \/ \E i \in Analyses : AnalyzerClose(i)

SpecApi == InitApi /\ [][NextApi]_vars

\* C21: no shared mutable state links concurrent analyses of one process:
\* the analyzer of every analysis is given (and so connects to) the port of
\* the provider that was started for its own analysis, under every
\* interleaving of the startLLMProvider and analyzePR calls.
C21_OwnProviderPort ==
  \A i \in Analyses :
    analyses[i].spawned > 0 =>
      /\ analyses[i].providerPort = PortOf(i)
      /\ analyses[i].analyzerPort = analyses[i].providerPort

\* The analyzer of one analysis has been given the port of the provider of
\* another analysis.
C21_CrossedPorts ==
  \E i, j \in Analyses :
    /\ i # j
    /\ analyses[i].spawned > 0
    /\ analyses[i].analyzerPort = analyses[j].providerPort

\* C24: analyzePR resolves with the accumulated standard output of the
\* analyzer if and only if the analyzer closes with exit code 0 and rejects
\* on every other close; when owner, repo or prNumber is missing it fails
\* without spawning a subprocess.
C24_ResolvesIffCodeZero ==
  \A i \in Analyses :
    LET a == analyses[i]
        missing == Falsy(a.options.owner) \/ Falsy(a.options.repo)
                   \/ Falsy(a.options.prNumber)
    IN  /\ a.st = "closed" =>
             /\ a.result.st = "resolved" <=> a.code = "0"
             /\ a.result.st = "rejected" <=> a.code # "0"
             /\ a.result.st = "resolved" => a.result.v = a.output
        /\ a.result.st = "resolved" => a.st = "closed"
        /\ a.st = "running" => a.result.st = "pending"
        /\ missing => a.spawned = 0 /\ a.st \in {"new", "provider", "thrown"}
        /\ (missing /\ a.st = "thrown") => a.result.st = "rejected"
        /\ a.spawned <= 1

\* C24 witness: one analyzer has closed with code 0 after two chunks and
\* its output was returned; another was ended by a signal after output and
\* was rejected.
C24_Witness ==
  \E i, j \in Analyses :
    /\ analyses[i].st = "closed" /\ analyses[i].code = "0"
    /\ Len(analyses[i].output) = 2
    /\ analyses[i].result = [st |-> "resolved", v |-> analyses[i].output]
    /\ analyses[j].st = "closed" /\ analyses[j].code = "null"
    /\ analyses[j].output # <<>>
    /\ analyses[j].result.st = "rejected"
----------------------------------------------------------------------------
(* The review requester: one request to the LLM provider.                  *)

InitProvider ==
  /\ PipelineIdle
  /\ ApiIdle
  /\ CallIdle
  /\ CliIdle
  /\ request \in Requests
  /\ reply = NoReply

NextProvider ==
  \/ ExecuteReceive
  \/ ExecuteBackendReturn
  \/ AnalyzeReceive
  \/ AnalyzeBackendReturn

SpecProvider == InitProvider /\ [][NextProvider]_vars

\* The text t starts with the text s.
StartsWith(t, s) == Len(s) <= Len(t) /\ SubSeq(t, 1, Len(s)) = s

\* C22: the system prompt that /execute sends to the backend always starts
\* with the complete default rubric; instructions of the caller come after
\* it, and with no or empty instructions the prompt is the default rubric
\* exactly.
C22_DefaultPromptFirst ==
  (request.endpoint = "execute" /\ reply.backend > 0) =>
    /\ StartsWith(reply.systemPrompt, MsgDefaultPrompt)
    /\ Falsy(request.instr) => reply.systemPrompt = MsgDefaultPrompt
    /\ ~Falsy(request.instr) =>
         /\ Len(reply.systemPrompt) > Len(MsgDefaultPrompt)
         /\ SubSeq(reply.systemPrompt,
                   Len(reply.systemPrompt) - Len(request.instr.v) + 1,
                   Len(reply.systemPrompt)) = request.instr.v

\* C22 witness: a request with instructions has been sent on to the
\* backend.
C22_Witness ==
  /\ request.endpoint = "execute"
  /\ request.instr = Str(<<"i">>)
  /\ reply.st = "waiting"
  /\ reply.backend = 1

\* C23: a success answer carries the verdict text of the backend, whole;
\* a completion without a non-empty content is answered with an error.
C23_SuccessIsTheVerdict ==
  (reply.st = "sent" /\ reply.status = 200) =>
    /\ reply.answer = "text"
    /\ reply.payload = Str(reply.text)

\* C23 counterexample state: /analyze has answered 200 although the
\* completion had no content.
C23_SuccessWithoutVerdict ==
  /\ request.endpoint = "analyze"
  /\ reply.st = "sent"
  /\ reply.status = 200
  /\ reply.answer \in {"nocontent", "nullcontent", "emptytext"}

\* C28: a call that is not valid is answered with 400 and makes no request
\* to the backend; a valid call makes exactly one.
ValidCall ==
  /\ ~Falsy(request.diff)
  /\ request.endpoint = "execute" => request.name = "analyze_pr_diff"
  /\ request.endpoint = "analyze" => ~Falsy(request.instr)

C28_BackendOnlyForValidCall ==
  /\ (reply.st # "none" /\ ~ValidCall) => (reply.status = 400 /\ reply.backend = 0)
  /\ (reply.st # "none" /\ ValidCall) => reply.backend = 1

\* C28 counterexample state: the tool is known, args is missing, and the
\* answer is 500.
C28_MissingArgsIs500 ==
  /\ request.endpoint = "execute"
  /\ request.name = "analyze_pr_diff"
  /\ ~request.hasArgs
  /\ reply.st = "sent"
  /\ reply.status = 500
  /\ reply.backend = 0
----------------------------------------------------------------------------
(* Specifications of executeMCPCommandStdio and of the analyze command.    *)

InitStdio ==
  /\ AnalyzerIdle
  /\ StdioIdle
  /\ WorkflowIdle
  /\ ApiIdle
  /\ ProviderIdle
  /\ CliIdle
  /\ stdioCall \in { [NoCall EXCEPT !.version = v, !.token = t,
                                      !.limit = MaxResponse] :
                       v \in Versions, t \in BOOLEAN }

NextStdio ==
  \/ StdioExecutor
  \/ StdioStdout
  \/ StdioStderr
  \/ StdioSpawnError
  \/ StdioClose
  \/ StdioTimeout

SpecStdio == InitStdio /\ [][NextStdio]_vars

InitCli ==
  /\ PipelineIdle
  /\ ApiIdle
  /\ ProviderIdle
  /\ CallIdle
  /\ cli \in CliInputs

NextCli ==
  \/ CliStart
  \/ ProviderListens
  \/ ProviderFails
  \/ ProviderOutput
  \/ CliSpawnAnalyzer
  \/ AnalyzerRequest
  \/ AnalyzerCloseCli
  \/ CliEnds

SpecCli == InitCli /\ [][NextCli]_vars

C27_CloseWithoutResponseRejects ==
  /\ (child = "closed" /\ ~responseComplete) =>
       (promise.st = "rejected" /\ timer # "active")
  /\ promise.st = "resolved" =>
       /\ responseComplete
       /\ \E n \in 1..Len(responseData) :
            LET scan == ScanOf(stdioCall.version, SubSeq(responseData, 1, n))
            IN  scan.act = "resolve" /\ scan.v = promise.v

\* C27 witness: the subprocess has closed with code 0 after partial output
\* only; the promise is rejected and the timer cleared.
C27_Witness ==
  /\ child = "closed"
  /\ stdioCall.code = "0"
  /\ ~responseComplete
  /\ responseData # <<>>
  /\ promise.st = "rejected"
  /\ timer = "cleared"

\* C29: when the analyzer has closed the LLM provider has been killed,
\* whatever the code; a code other than 0 is the status the CLI exits with
\* and the success message is not printed; the success message is printed
\* only for code 0.
C29_CloseKillsAndPropagates ==
  /\ cli.analyzer = "closed" =>
       /\ cli.llmProvider \in {"killed", "exited"}
       /\ cli.code # "0" => (cli.status = cli.code /\ ~cli.success)
  /\ cli.success => cli.code = "0"

\* The same for an analyzer that ended on its own (with a number as code).
C29_ExitCodePropagates ==
  /\ cli.analyzer = "closed" =>
       /\ cli.llmProvider \in {"killed", "exited"}
       /\ cli.code \notin {"0", "null"} => (cli.status = cli.code /\ ~cli.success)
       /\ cli.code = "null" => ~cli.success
  /\ cli.success => cli.code = "0"

\* The analyzer was ended by a signal and the CLI has exited with status 0.
C29_SignalExitsZero ==
  /\ cli.analyzer = "closed"
  /\ cli.code = "null"
  /\ cli.failedMsg
  /\ cli.pc = "exited"
  /\ cli.status = "0"

\* C30: the provider is started before the analyzer, and the request of
\* the analyzer reaches the provider only when it is listening.
C30_RequestFindsListeningProvider ==
  /\ cli.analyzer # "none" => cli.llmProvider # "none"
  /\ cli.requestAt # "none" => cli.requestAt = "listening"

\* The first half of C30 alone: the provider is spawned before the analyzer.
C30_ProviderSpawnedFirst ==
  cli.analyzer # "none" => cli.llmProvider # "none"

\* The request of the analyzer was sent while the provider was still
\* starting.
C30_RequestBeforeListen ==
  /\ cli.analyzer = "requested"
  /\ cli.requestAt = "starting"
----------------------------------------------------------------------------
(* A process that calls executeMCPCommandStdio (lib) and                   *)
(* startMCPGitHubServerProcess with the same environment.  What the        *)
(* subprocess writes plays no part here: it writes one token at most.      *)

InitToken ==
  /\ AnalyzerIdle
  /\ StdioIdle
  /\ WorkflowIdle
  /\ ProviderIdle
  /\ CliIdle
  /\ envLlmPort = 0
  /\ analyses = [i \in Analyses |-> NewAnalysis([owner |-> Given, repo |-> Given,
                                                 prNumber |-> Given])]
  /\ mcpServer \in { [NoServerStart EXCEPT !.githubToken = g, !.pat = p,
                                           !.envPort = e] :
                       g \in BOOLEAN, p \in BOOLEAN, e \in EnvPorts }
  /\ stdioCall = [NoCall EXCEPT !.version = "lib",
                                !.token = ~MissingToken(mcpServer.githubToken,
                                                        mcpServer.pat),
                                !.limit = 1]

NextToken ==
  \/ StartMCPGitHubServerProcess
  \/ StdioExecutor
  \/ StdioStdout
  \/ StdioStderr
  \/ StdioSpawnError
  \/ StdioClose
  \/ StdioTimeout

SpecToken == InitToken /\ [][NextToken]_vars

\* C31: with neither GITHUB_TOKEN nor GITHUB_PERSONAL_ACCESS_TOKEN set,
\* executeMCPCommandStdio rejects without a subprocess, without a command
\* written and without a timer, and startMCPGitHubServerProcess throws
\* without a subprocess and with MCP_GITHUB_PORT as it was before the call.
C31_NoTokenNoEffect ==
  (~mcpServer.githubToken /\ ~mcpServer.pat) =>
    /\ child = "none"
    /\ stdioCall.written = 0
    /\ timer = "none"
    /\ promise.st \in {"none", "rejected"}
    /\ mcpServer.st # "spawned"
    /\ mcpServer.spawned = 0
    /\ mcpServer.childPort = 0
    /\ mcpServer.st = "thrown" => mcpServer.envPort = mcpServer.portBefore

\* C31 witness: without a token both functions have been called; the one
\* has rejected and the other has thrown, and MCP_GITHUB_PORT still has
\* the value it was set to before.
C31_Witness ==
  /\ ~mcpServer.githubToken
  /\ ~mcpServer.pat
  /\ promise.st = "rejected"
  /\ promise.kind = "MissingToken"
  /\ mcpServer.st = "thrown"
  /\ mcpServer.envPort = 7000

----------------------------------------------------------------------------
(* The split of the subprocess's output into data chunks.                  *)

InitChunks ==
  /\ AnalyzerIdle
  /\ StdioIdle
  /\ WorkflowIdle
  /\ ApiIdle
  /\ ProviderIdle
  /\ CliIdle
  /\ stdioCall \in { [NoCall EXCEPT !.version = v, !.token = TRUE,
                                      !.limit = MaxOutput] : v \in Versions }

SpecChunks == InitChunks /\ [][NextStdio]_vars

\* The outcome of the call when the whole output rd arrives as one chunk
\* and the subprocess then closes.
WholeOutcome(version, rd) ==
  LET scan == ScanOf(version, rd)
  IN  IF rd = <<>> THEN Rejected("ProviderUnavailable")
      ELSE CASE scan.act = "resolve" -> Resolved(scan.v)
             [] scan.act = "reject"  -> Rejected("ProviderError")
             [] scan.act = "wait"    -> Rejected("ProviderUnavailable")

\* C32: when the subprocess has closed (and the timer has not fired), the
\* outcome of the call is the one the same output gives as a single chunk:
\* the split into chunks does not matter.
C32_ChunkingIrrelevant ==
  (child = "closed" /\ timer # "fired") =>
    promise = WholeOutcome(stdioCall.version, responseData)

\* Two objects on the standard output, the first with the diff: split
\* after the first object the call has resolved with the diff, in one
\* chunk the same output is rejected.
C32_TwoObjects ==
  /\ child = "closed"
  /\ timer # "fired"
  /\ responseData = <<"{", "c_text", "}", "{", "}">>
  /\ promise = Resolved(Str(SomeDiff))
  /\ WholeOutcome(stdioCall.version, responseData).st = "rejected"

\* The same for each version of the function.
C32_TwoObjectsLib == C32_TwoObjects /\ stdioCall.version = "lib"
C32_TwoObjectsOld == C32_TwoObjects /\ stdioCall.version = "old"
====
